---- MODULE Spec2Model ----
(***************************************************************************)
(* Fleet cost intelligence: the analytics pipeline.                        *)
(*                                                                         *)
(*   GPS track --computeBaseMetrics--> base metrics                        *)
(*             --computeDerivedMetrics--> derived ratios                   *)
(*             --calculateEfficiencyScore / calculateRiskScore--> scores   *)
(*             --rankByEfficiency / rankByRisk / aggregateFleetMetrics-->  *)
(*               fleet rankings                                            *)
(*                                                                         *)
(* Numbers.  JavaScript numbers are modelled exactly where the code        *)
(* divides: a real-valued metric is a normalised fraction [n, d] (d > 0).  *)
(* Timestamps lie on whole minutes, so the durations and the totals the    *)
(* track walk accumulates are integers (minutes, kilometres); they become  *)
(* fractions when the metrics record is built.  NaN and the infinities are *)
(* not modelled: every input number is finite.                             *)
(***************************************************************************)
EXTENDS Integers, Sequences, FiniteSets, TLC

\* ------------------------------------------------------------------------
\* Bounds of the model
\* ------------------------------------------------------------------------
\* longest track walked
MaxPoints == 3
\* longest track of the calls that follow one another
MaxRepeatPoints == 2
\* calls that follow one another
MaxCalls == 2
\* most long idle events in the metrics handed to the risk scorer
MaxLongIdleEvents == 20
\* largest fleet aggregated
MaxVehicles == 3
\* largest fleet ranked, larger than the list of top-risk vehicles
MaxRankedVehicles == 4

\* ------------------------------------------------------------------------
\* Exact arithmetic on fractions
\* ------------------------------------------------------------------------
Abs(x) == IF x < 0 THEN -x ELSE x

RECURSIVE GCD(_, _)
GCD(a, b) == IF b = 0 THEN a ELSE GCD(b, a % b)

\* the fraction n/d (d # 0) in lowest terms with a positive denominator
Frac(n, d) ==
  LET g == GCD(Abs(n), Abs(d))
      s == IF d < 0 THEN -1 ELSE 1
  IN  [n |-> (s * n) \div g, d |-> (s * d) \div g]

R(k) == [n |-> k, d |-> 1]

RAdd(a, b) ==
  LET g == GCD(a.d, b.d)
  IN  Frac(a.n * (b.d \div g) + b.n * (a.d \div g), (a.d \div g) * b.d)
RNeg(a) == [n |-> -a.n, d |-> a.d]
RSub(a, b) == RAdd(a, RNeg(b))
RMul(a, b) ==
  LET g1 == GCD(Abs(a.n), b.d)
      g2 == GCD(Abs(b.n), a.d)
  IN  Frac((a.n \div g1) * (b.n \div g2), (a.d \div g2) * (b.d \div g1))
\* a / b, b # 0
RDiv(a, b) == RMul(a, Frac(b.d, b.n))
RLt(a, b) == a.n * b.d < b.n * a.d
RLe(a, b) == a.n * b.d <= b.n * a.d
RMax(a, b) == IF RLt(a, b) THEN b ELSE a
RMin(a, b) == IF RLt(b, a) THEN b ELSE a

\* ------------------------------------------------------------------------
\* config/constants.ts
\* ------------------------------------------------------------------------
ANALYTICS_CONFIG ==
  [ idleSpeedThresholdKmh    |-> 2,
    speedingThresholdKmh     |-> 110,
    longIdleThresholdMinutes |-> 10,
    expectedKmPerHour        |-> 35,
    stopPenaltyFactor        |-> 50,
    idleRiskFactor           |-> 15,
    varianceFactor           |-> 2 ]

\* idleRatio 0.40, utilizationRate 0.30, distanceEfficiency 0.20,
\* stopEfficiency 0.10
EFFICIENCY_WEIGHTS ==
  [ idleRatio          |-> Frac(40, 100),
    utilizationRate    |-> Frac(30, 100),
    distanceEfficiency |-> Frac(20, 100),
    stopEfficiency     |-> Frac(10, 100) ]

\* speedingRatio 0.45, longIdleFrequency 0.25, maxSpeedSeverity 0.20,
\* erraticPattern 0.10
RISK_WEIGHTS ==
  [ speedingRatio     |-> Frac(45, 100),
    longIdleFrequency |-> Frac(25, 100),
    maxSpeedSeverity  |-> Frac(20, 100),
    erraticPattern    |-> Frac(10, 100) ]

\* ------------------------------------------------------------------------
\* utils/timeUtils.ts
\* ------------------------------------------------------------------------
\* A timestamp string: text = "iso" is a well-formed ISO 8601 instant,
\* `minute` minutes after the epoch; "garbage" does not parse; "" is the
\* empty string; "null" is the JavaScript null (idleStartTime only).
Iso(m) == [text |-> "iso", minute |-> m]
GarbageTime == [text |-> "garbage", minute |-> 0]
EmptyTime == [text |-> "", minute |-> 0]
null == [text |-> "null", minute |-> 0]

MsPerMinute == 1000 * 60

\* Date | null: ok = FALSE is null, else ms = Date.getTime()
parseTimestamp(timestamp) ==
  IF timestamp.text = "" THEN [ok |-> FALSE, ms |-> 0]
  ELSE IF timestamp.text # "iso" THEN [ok |-> FALSE, ms |-> 0]
  ELSE [ok |-> TRUE, ms |-> timestamp.minute * MsPerMinute]

\* the bug: the duration of a reversed pair is not clamped
getDurationMinutes_signed(startTime, endTime) ==
  LET start == parseTimestamp(startTime)
      end == parseTimestamp(endTime)
      durationMs == end.ms - start.ms
  IN  IF ~start.ok \/ ~end.ok THEN 0
      ELSE IF durationMs < 0 THEN -((-durationMs) \div MsPerMinute)
      ELSE durationMs \div MsPerMinute

getDurationMinutes(startTime, endTime) ==
  LET start == parseTimestamp(startTime)
      end == parseTimestamp(endTime)
      durationMs == end.ms - start.ms
  IN  IF ~start.ok \/ ~end.ok THEN 0
      ELSE IF durationMs < 0 THEN 0
      ELSE durationMs \div MsPerMinute

getPointDurationMinutes(point1, point2) ==
  getDurationMinutes(point1.timestamp, point2.timestamp)

\* denominator 0 gives the fallback; fractions are always finite
safeDivide(numerator, denominator, fallback) ==
  IF denominator.n = 0 THEN fallback ELSE RDiv(numerator, denominator)

clamp(value, min, max) == RMin(RMax(value, min), max)

\* ------------------------------------------------------------------------
\* utils/geoCalculations.ts
\* ------------------------------------------------------------------------
\* EARTH_RADIUS_KM * DEG_TO_RAD = 6371 * pi / 180, to the kilometre: the
\* length of one degree of a great circle.
KmPerDegree == 111

\* Sampled points lie on one meridian, where the haversine formula reduces
\* to EARTH_RADIUS_KM * |lat2 - lat1| in radians.
haversineDistance(lat1, lon1, lat2, lon2) ==
  IF lat1 = lat2 /\ lon1 = lon2 THEN 0
  ELSE KmPerDegree * Abs(lat2 - lat1)

RECURSIVE SumLat(_)
SumLat(points) ==
  IF points = <<>> THEN 0 ELSE points[1].latitude + SumLat(Tail(points))

NoLocation == [lat |-> R(0), lng |-> R(0), isNull |-> TRUE]

\* The mean direction of points of one meridian: their longitude and, to
\* first order, the mean of their latitudes.
calculateCentroid(points) ==
  IF Len(points) = 0 THEN NoLocation
  ELSE IF Len(points) = 1
    THEN [lat |-> R(points[1].latitude), lng |-> R(points[1].longitude),
          isNull |-> FALSE]
  ELSE [lat |-> Frac(SumLat(points), Len(points)),
        lng |-> R(points[1].longitude), isNull |-> FALSE]

\* ------------------------------------------------------------------------
\* types/gps.types.ts: the tracks walked
\* ------------------------------------------------------------------------
\* Samples are taken every SampleMinutes; the interval equals the default
\* long-idle threshold, so idle runs fall below, on and above it.
SampleMinutes == ANALYTICS_CONFIG.longIdleThresholdMinutes

\* The k-th sample of a track is stamped on schedule, or by a clock set
\* back to the start of the track (a duplicate of, or a step behind, what
\* came before), or with garbage.
OnSchedule(k) == Iso((k - 1) * SampleMinutes)

ClockReadings(k) == {OnSchedule(k), Iso(0), GarbageTime}

Timestamps == UNION {ClockReadings(k) : k \in 1..MaxPoints}

\* <<ignitionOn, speed>>: idling, driving, speeding, and ignition off with
\* a speed still reported
PointKinds == {<<TRUE, 0>>, <<TRUE, 60>>, <<TRUE, 120>>, <<FALSE, 120>>}

\* GPSTrackPoint.  A sampled vehicle is one degree further north at every
\* tick of its clock; a point whose timestamp is garbage reports latitude 0.
GPSTrackPoint(kind, timestamp) ==
  [ latitude   |-> timestamp.minute \div SampleMinutes,
    longitude  |-> 0,
    speed      |-> kind[2],
    timestamp  |-> timestamp,
    ignitionOn |-> kind[1] ]

PointSeqs ==
  UNION { { [k \in 1..n |-> GPSTrackPoint(kinds[k], stamps[k])] :
              kinds \in [1..n -> PointKinds],
              stamps \in {f \in [1..n -> Timestamps] :
                            \A k \in 1..n : f[k] \in ClockReadings(k)} } :
          n \in 0..MaxPoints }

\* tracks without points: the declared period is half a day, reversed, or
\* not to be parsed
EmptyTracks ==
  { [vehicleId |-> "v1", startTime |-> period[1], endTime |-> period[2],
     points |-> <<>>]
      : period \in { <<Iso(0), Iso(12 * 60)>>, <<Iso(12 * 60), Iso(0)>>,
                     <<GarbageTime, Iso(12 * 60)>>, <<Iso(0), EmptyTime>> } }

\* GPSTrackResponse: the declared period of a track with points is one
\* day, whatever the points cover
Tracks ==
  { [vehicleId |-> "v1", startTime |-> Iso(0),
     endTime |-> Iso(24 * 60), points |-> ps]
      : ps \in PointSeqs } \cup EmptyTracks

\* the tracks of repeated calls: shorter, every sample on schedule
RepeatTracks ==
  { [vehicleId |-> "v1", startTime |-> Iso(0),
     endTime |-> Iso(24 * 60),
     points |-> [k \in 1..n |-> GPSTrackPoint(kinds[k], OnSchedule(k))]]
      : n \in 0..MaxRepeatPoints, kinds \in [1..MaxRepeatPoints -> PointKinds] }

NoTrack ==
  [vehicleId |-> "", startTime |-> EmptyTime, endTime |-> EmptyTime,
   points |-> <<>>]

\* the default config, and one that makes every idle run a long idle
ZeroThresholdConfig == [ANALYTICS_CONFIG EXCEPT !.longIdleThresholdMinutes = 0]
Configs == {ANALYTICS_CONFIG, ZeroThresholdConfig}

\* ------------------------------------------------------------------------
\* analytics/baseMetrics.ts
\* ------------------------------------------------------------------------
classifyPointState(point, config) ==
  IF ~point.ignitionOn THEN "off"
  ELSE IF point.speed < config.idleSpeedThresholdKmh THEN "idle"
  ELSE "moving"

\* the bug: any arrival at an idle or off point counts as a stop
isStopTransition_anyPrevious(previousState, currentState) ==
  currentState = "idle" \/ currentState = "off"

isStopTransition(previousState, currentState) ==
  previousState = "moving" /\ (currentState = "idle" \/ currentState = "off")

createIdleTracker ==
  [ isInIdleState          |-> FALSE,
    idleStartTime          |-> null,
    idleStartLocation      |-> NoLocation,
    accumulatedIdleMinutes |-> 0,
    idlePoints             |-> <<>> ]

enterIdleState(tracker, point) ==
  [ isInIdleState          |-> TRUE,
    idleStartTime          |-> point.timestamp,
    idleStartLocation      |->
      [lat |-> R(point.latitude), lng |-> R(point.longitude), isNull |-> FALSE],
    accumulatedIdleMinutes |-> 0,
    idlePoints             |-> <<point>> ]

accumulateIdleTime(tracker, point, durationMinutes) ==
  [ tracker EXCEPT
      !.accumulatedIdleMinutes = tracker.accumulatedIdleMinutes + durationMinutes,
      !.idlePoints = Append(tracker.idlePoints, point) ]

\* the bug: the duration of the event is the clock span endTime - startTime
exitIdleState_clockSpan(tracker, endTime, longIdleThresholdMinutes) ==
  LET centroid == calculateCentroid(tracker.idlePoints)
      location ==
        IF ~centroid.isNull THEN centroid
        ELSE IF ~tracker.idleStartLocation.isNull THEN tracker.idleStartLocation
        ELSE [lat |-> R(0), lng |-> R(0), isNull |-> FALSE]
      event ==
        IF /\ tracker.accumulatedIdleMinutes >= longIdleThresholdMinutes
           /\ tracker.idleStartTime # null
        THEN << [ startTime       |-> tracker.idleStartTime,
                  endTime         |-> endTime,
                  durationMinutes |->
                    getDurationMinutes(tracker.idleStartTime, endTime),
                  location        |-> location ] >>
        ELSE <<>>
  IN  [tracker |-> createIdleTracker, event |-> event]

\* the bug: a run of exactly the threshold is not long
exitIdleState_strict(tracker, endTime, longIdleThresholdMinutes) ==
  LET centroid == calculateCentroid(tracker.idlePoints)
      location ==
        IF ~centroid.isNull THEN centroid
        ELSE IF ~tracker.idleStartLocation.isNull THEN tracker.idleStartLocation
        ELSE [lat |-> R(0), lng |-> R(0), isNull |-> FALSE]
      event ==
        IF /\ tracker.accumulatedIdleMinutes > longIdleThresholdMinutes
           /\ tracker.idleStartTime # null
        THEN << [ startTime       |-> tracker.idleStartTime,
                  endTime         |-> endTime,
                  durationMinutes |-> tracker.accumulatedIdleMinutes,
                  location        |-> location ] >>
        ELSE <<>>
  IN  [tracker |-> createIdleTracker, event |-> event]

\* `event` is the sequence of the events emitted: empty for null
exitIdleState(tracker, endTime, longIdleThresholdMinutes) ==
  LET centroid == calculateCentroid(tracker.idlePoints)
      location ==
        IF ~centroid.isNull THEN centroid
        ELSE IF ~tracker.idleStartLocation.isNull THEN tracker.idleStartLocation
        ELSE [lat |-> R(0), lng |-> R(0), isNull |-> FALSE]
      event ==
        IF /\ tracker.accumulatedIdleMinutes >= longIdleThresholdMinutes
           /\ tracker.idleStartTime # null
        THEN << [ startTime       |-> tracker.idleStartTime,
                  endTime         |-> endTime,
                  durationMinutes |-> tracker.accumulatedIdleMinutes,
                  location        |-> location ] >>
        ELSE <<>>
  IN  [tracker |-> createIdleTracker, event |-> event]

calculateSegmentDistance(prevPoint, currPoint, prevState) ==
  IF prevState # "moving" THEN 0
  ELSE haversineDistance(prevPoint.latitude, prevPoint.longitude,
                         currPoint.latitude, currPoint.longitude)

\* the bug: the declared period is zeroed with the rest
createEmptyMetrics_noPeriod(vehicleId, periodStart, periodEnd, totalTimeMinutes) ==
  [ vehicleId              |-> vehicleId,
    periodStart            |-> periodStart,
    periodEnd              |-> periodEnd,
    totalDistanceKm        |-> R(0),
    totalMovingTimeMinutes |-> R(0),
    totalIdleTimeMinutes   |-> R(0),
    totalTimeMinutes       |-> R(0),
    averageSpeedKmh        |-> R(0),
    maxSpeedKmh            |-> R(0),
    numberOfStops          |-> 0,
    longIdleEvents         |-> <<>>,
    totalPointsAnalyzed    |-> 0 ]

createEmptyMetrics(vehicleId, periodStart, periodEnd, totalTimeMinutes) ==
  [ vehicleId              |-> vehicleId,
    periodStart            |-> periodStart,
    periodEnd              |-> periodEnd,
    totalDistanceKm        |-> R(0),
    totalMovingTimeMinutes |-> R(0),
    totalIdleTimeMinutes   |-> R(0),
    totalTimeMinutes       |-> R(totalTimeMinutes),
    averageSpeedKmh        |-> R(0),
    maxSpeedKmh            |-> R(0),
    numberOfStops          |-> 0,
    longIdleEvents         |-> <<>>,
    totalPointsAnalyzed    |-> 0 ]

\* the MetricsAccumulator a call starts from
EmptyAccumulator ==
  [ totalDistanceKm        |-> 0,
    totalMovingTimeMinutes |-> 0,
    totalIdleTimeMinutes   |-> 0,
    maxSpeedKmh            |-> 0,
    numberOfStops          |-> 0,
    speedSamples           |-> <<>>,
    longIdleEvents         |-> <<>> ]

\* the locals of computeBaseMetrics before the first point
NewLocals ==
  [ accumulator   |-> EmptyAccumulator,
    idleTracker   |-> createIdleTracker,
    previousState |-> "null" ]

\* the bug: `else` for `else if`, the time of an off segment counted as idle
AttributeSegment_offAsIdle(acc, previousState, prevPoint, currentPoint) ==
  LET segmentDuration == getPointDurationMinutes(prevPoint, currentPoint)
  IN  IF previousState = "moving"
      THEN [acc EXCEPT
              !.totalDistanceKm = acc.totalDistanceKm +
                calculateSegmentDistance(prevPoint, currentPoint, previousState),
              !.totalMovingTimeMinutes = acc.totalMovingTimeMinutes + segmentDuration]
      ELSE [acc EXCEPT
              !.totalIdleTimeMinutes = acc.totalIdleTimeMinutes + segmentDuration]

\* The segment from the previous point to the current one: its time goes to
\* the previous point's state, moving or idle; the time of an off segment
\* is not counted.
AttributeSegment(acc, previousState, prevPoint, currentPoint) ==
  LET segmentDuration == getPointDurationMinutes(prevPoint, currentPoint)
  IN  IF previousState = "moving"
      THEN [acc EXCEPT
              !.totalDistanceKm = acc.totalDistanceKm +
                calculateSegmentDistance(prevPoint, currentPoint, previousState),
              !.totalMovingTimeMinutes = acc.totalMovingTimeMinutes + segmentDuration]
      ELSE IF previousState = "idle"
      THEN [acc EXCEPT
              !.totalIdleTimeMinutes = acc.totalIdleTimeMinutes + segmentDuration]
      ELSE acc

\* One pass of the loop of computeBaseMetrics, for the point at index i
\* (1-based).  l holds the locals accumulator, idleTracker, previousState.
LoopBody(l, points, i, config) ==
  LET currentPoint == points[i]
      currentState == classifyPointState(currentPoint, config)
      \* max speed, only when the ignition is on
      acc1 ==
        IF currentPoint.ignitionOn /\ currentPoint.speed > l.accumulator.maxSpeedKmh
        THEN [l.accumulator EXCEPT !.maxSpeedKmh = currentPoint.speed]
        ELSE l.accumulator
      \* speed samples of the moving points
      acc2 ==
        IF currentState = "moving"
        THEN [acc1 EXCEPT !.speedSamples = Append(acc1.speedSamples, currentPoint.speed)]
        ELSE acc1
      hasSegment == i > 1 /\ l.previousState # "null"
      prevPoint == points[i - 1]
      segmentDuration == getPointDurationMinutes(prevPoint, currentPoint)
      acc3 ==
        IF hasSegment
        THEN AttributeSegment(acc2, l.previousState, prevPoint, currentPoint)
        ELSE acc2
      tracker1 ==
        IF hasSegment /\ l.previousState = "idle"
        THEN accumulateIdleTime(l.idleTracker, currentPoint, segmentDuration)
        ELSE l.idleTracker
      acc4 ==
        IF hasSegment /\ isStopTransition(l.previousState, currentState)
        THEN [acc3 EXCEPT !.numberOfStops = acc3.numberOfStops + 1]
        ELSE acc3
      entering == currentState = "idle" /\ l.previousState # "idle"
      exiting == currentState # "idle" /\ l.previousState = "idle"
      result == exitIdleState(tracker1, currentPoint.timestamp,
                              config.longIdleThresholdMinutes)
      tracker2 ==
        IF entering THEN enterIdleState(tracker1, currentPoint)
        ELSE IF exiting THEN result.tracker
        ELSE tracker1
      acc5 ==
        IF ~entering /\ exiting
        THEN [acc4 EXCEPT !.longIdleEvents = acc4.longIdleEvents \o result.event]
        ELSE acc4
  IN  [accumulator |-> acc5, idleTracker |-> tracker2,
       previousState |-> currentState]

\* the bug: the run still open when the track ends is dropped
FinalizeOpenRun_dropped(l, points, config) == l.accumulator

\* After the loop: the idle run still open is finalized with the last
\* point's timestamp.
FinalizeOpenRun(l, points, config) ==
  LET lastPoint == points[Len(points)]
      result == exitIdleState(l.idleTracker, lastPoint.timestamp,
                              config.longIdleThresholdMinutes)
  IN  IF l.idleTracker.isInIdleState
      THEN [l.accumulator EXCEPT
              !.longIdleEvents = l.accumulator.longIdleEvents \o result.event]
      ELSE l.accumulator

\* The end of computeBaseMetrics: the open run is finalized, the average
\* speed is taken, the record is built.
FinishBaseMetrics(l, track, config, totalTimeMinutes) ==
  LET points == track.points
      acc == FinalizeOpenRun(l, points, config)
      averageSpeedKmh ==
        safeDivide(R(acc.totalDistanceKm),
                   Frac(acc.totalMovingTimeMinutes, 60), R(0))
  IN  [ vehicleId              |-> track.vehicleId,
        periodStart            |-> track.startTime,
        periodEnd              |-> track.endTime,
        totalDistanceKm        |-> R(acc.totalDistanceKm),
        totalMovingTimeMinutes |-> R(acc.totalMovingTimeMinutes),
        totalIdleTimeMinutes   |-> R(acc.totalIdleTimeMinutes),
        totalTimeMinutes       |-> R(totalTimeMinutes),
        averageSpeedKmh        |-> averageSpeedKmh,
        maxSpeedKmh            |-> R(acc.maxSpeedKmh),
        numberOfStops          |-> acc.numberOfStops,
        longIdleEvents         |-> acc.longIdleEvents,
        totalPointsAnalyzed    |-> Len(points) ]

\* the bug: the speed of the only point is taken whatever its ignition
ShortTrackMetrics_anyIgnition(track) ==
  LET totalTimeMinutes == getDurationMinutes(track.startTime, track.endTime)
      empty == createEmptyMetrics(track.vehicleId, track.startTime,
                                  track.endTime, totalTimeMinutes)
      singlePoint == track.points[1]
  IN  IF Len(track.points) = 0 THEN empty
      ELSE [empty EXCEPT !.maxSpeedKmh = R(singlePoint.speed),
                         !.totalPointsAnalyzed = 1]

\* computeBaseMetrics on a track of fewer than two points
ShortTrackMetrics(track) ==
  LET totalTimeMinutes == getDurationMinutes(track.startTime, track.endTime)
      empty == createEmptyMetrics(track.vehicleId, track.startTime,
                                  track.endTime, totalTimeMinutes)
      singlePoint == track.points[1]
  IN  IF Len(track.points) = 0 THEN empty
      ELSE [empty EXCEPT
              !.maxSpeedKmh =
                 IF singlePoint.ignitionOn THEN R(singlePoint.speed) ELSE R(0),
              !.totalPointsAnalyzed = 1]

\* ------------------------------------------------------------------------
\* analytics/derivedMetrics.ts
\* ------------------------------------------------------------------------
\* the bug: the ignition is not looked at
isSpeedingPoint_anyIgnition(point, speedingThresholdKmh) ==
  point.speed >= speedingThresholdKmh

isSpeedingPoint(point, speedingThresholdKmh) ==
  point.ignitionOn /\ point.speed >= speedingThresholdKmh

\* the locals of analyzeSpeedingTime before the first pair
NewSpeedingAnalysis ==
  [ timeOverThresholdMinutes |-> 0,
    speedingSegmentCount     |-> 0,
    maxSpeedingSpeed         |-> 0,
    previousWasSpeeding      |-> FALSE ]

\* One pass of the loop of analyzeSpeedingTime, for the pair that starts at
\* index i (1-based).
SpeedingBody(s, points, i, config) ==
  LET currentPoint == points[i]
      nextPoint == points[i + 1]
      isSpeeding == isSpeedingPoint(currentPoint, config.speedingThresholdKmh)
      segmentDuration == getPointDurationMinutes(currentPoint, nextPoint)
  IN  IF isSpeeding
      THEN [ timeOverThresholdMinutes |->
               s.timeOverThresholdMinutes + segmentDuration,
             speedingSegmentCount |->
               IF ~s.previousWasSpeeding THEN s.speedingSegmentCount + 1
               ELSE s.speedingSegmentCount,
             maxSpeedingSpeed |->
               IF currentPoint.speed > s.maxSpeedingSpeed
               THEN currentPoint.speed ELSE s.maxSpeedingSpeed,
             previousWasSpeeding |-> isSpeeding ]
      ELSE [s EXCEPT !.previousWasSpeeding = isSpeeding]

calculateIdleRatio(baseMetrics) ==
  LET operationalTime ==
        RAdd(baseMetrics.totalIdleTimeMinutes, baseMetrics.totalMovingTimeMinutes)
  IN  safeDivide(baseMetrics.totalIdleTimeMinutes, operationalTime, R(0))

calculateAggressiveDrivingRatio(timeOverThresholdMinutes, totalMovingTimeMinutes) ==
  safeDivide(timeOverThresholdMinutes, totalMovingTimeMinutes, R(0))

\* computeDerivedMetrics, given the result of analyzeSpeedingTime
computeDerivedMetrics(baseMetrics, speedingAnalysis) ==
  baseMetrics @@
  [ idleRatio |-> calculateIdleRatio(baseMetrics),
    aggressiveDrivingRatio |->
      calculateAggressiveDrivingRatio(
        R(speedingAnalysis.timeOverThresholdMinutes),
        baseMetrics.totalMovingTimeMinutes),
    timeOverSpeedThresholdMinutes |->
      R(speedingAnalysis.timeOverThresholdMinutes),
    efficiencyScore |-> R(0),
    riskScore |-> R(0) ]

\* ------------------------------------------------------------------------
\* analytics/efficiencyScore.ts
\* ------------------------------------------------------------------------
calculateIdleScore(metrics) ==
  LET operationalTime ==
        RAdd(metrics.totalIdleTimeMinutes, metrics.totalMovingTimeMinutes)
      idleRatio == safeDivide(metrics.totalIdleTimeMinutes, operationalTime, R(0))
      score == RMul(RSub(R(1), idleRatio), R(100))
  IN  clamp(score, R(0), R(100))

calculateUtilizationScore(metrics) ==
  LET utilizationRate ==
        safeDivide(metrics.totalMovingTimeMinutes, metrics.totalTimeMinutes, R(0))
      score == RMul(utilizationRate, R(100))
  IN  clamp(score, R(0), R(100))

calculateDistanceScore(metrics, expectedKmPerHour) ==
  LET totalHours == RDiv(metrics.totalTimeMinutes, R(60))
      kmPerHour == safeDivide(metrics.totalDistanceKm, totalHours, R(0))
      efficiencyRatio == safeDivide(kmPerHour, expectedKmPerHour, R(0))
      score == RMul(efficiencyRatio, R(100))
  IN  clamp(score, R(0), R(100))

calculateStopScore(metrics, stopPenaltyFactor) ==
  LET stopsPerKm ==
        safeDivide(R(metrics.numberOfStops),
                   RMax(R(1), metrics.totalDistanceKm), R(0))
      score == RSub(R(100), RMul(stopsPerKm, stopPenaltyFactor))
  IN  clamp(score, R(0), R(100))

computeEfficiencyComponents(metrics, config) ==
  [ idleScore        |-> calculateIdleScore(metrics),
    utilizationScore |-> calculateUtilizationScore(metrics),
    distanceScore    |-> calculateDistanceScore(metrics, R(config.expectedKmPerHour)),
    stopScore        |-> calculateStopScore(metrics, R(config.stopPenaltyFactor)) ]

EfficiencyWeightedScore(components, weights) ==
  RAdd(RAdd(RAdd(RMul(components.idleScore, weights.idleRatio),
                 RMul(components.utilizationScore, weights.utilizationRate)),
            RMul(components.distanceScore, weights.distanceEfficiency)),
       RMul(components.stopScore, weights.stopEfficiency))

\* the bug: the weighted sum is returned as it is
calculateEfficiencyScore_unclamped(metrics, weights, config) ==
  IF metrics.totalTimeMinutes = R(0) THEN R(0)
  ELSE EfficiencyWeightedScore(
         computeEfficiencyComponents(metrics, config), weights)

calculateEfficiencyScore(metrics, weights, config) ==
  IF metrics.totalTimeMinutes = R(0) THEN R(0)
  ELSE clamp(EfficiencyWeightedScore(
               computeEfficiencyComponents(metrics, config), weights),
             R(0), R(100))

\* ------------------------------------------------------------------------
\* analytics/riskScore.ts
\* ------------------------------------------------------------------------
SPEED_EXCESS_REFERENCE_KMH == 40
MINUTES_PER_DAY == 1440

calculateSpeedingScore(metrics) ==
  clamp(RMul(metrics.aggressiveDrivingRatio, R(100)), R(0), R(100))

\* the bug: the count is divided by the days even when they are less than 1
calculateLongIdleFrequencyScore_scaledUp(metrics, idleRiskFactor) ==
  LET totalDays == safeDivide(metrics.totalTimeMinutes, R(MINUTES_PER_DAY), R(1))
      longIdlesPerDay ==
        safeDivide(R(Len(metrics.longIdleEvents)), totalDays, R(0))
      score == RMul(longIdlesPerDay, idleRiskFactor)
  IN  clamp(score, R(0), R(100))

calculateLongIdleFrequencyScore(metrics, idleRiskFactor) ==
  LET totalDays == safeDivide(metrics.totalTimeMinutes, R(MINUTES_PER_DAY), R(1))
      longIdlesPerDay ==
        safeDivide(R(Len(metrics.longIdleEvents)), RMax(R(1), totalDays), R(0))
      score == RMul(longIdlesPerDay, idleRiskFactor)
  IN  clamp(score, R(0), R(100))

calculateMaxSpeedSeverityScore(metrics, speedingThresholdKmh) ==
  LET speedExcess == RMax(R(0), RSub(metrics.maxSpeedKmh, speedingThresholdKmh))
      severityRatio == safeDivide(speedExcess, R(SPEED_EXCESS_REFERENCE_KMH), R(0))
      score == RMul(severityRatio, R(100))
  IN  clamp(score, R(0), R(100))

calculateErraticPatternScore(metrics) ==
  IF metrics.averageSpeedKmh = R(0)
  THEN (IF RLt(R(0), metrics.maxSpeedKmh) THEN R(50) ELSE R(0))
  ELSE LET speedRatio ==
             safeDivide(metrics.maxSpeedKmh, metrics.averageSpeedKmh, R(1))
           erraticRatio == RSub(speedRatio, R(1))
           score == RMul(erraticRatio, R(100))
       IN  clamp(score, R(0), R(100))

computeRiskComponents(metrics, config) ==
  [ speedingScore |-> calculateSpeedingScore(metrics),
    longIdleFrequencyScore |->
      calculateLongIdleFrequencyScore(metrics, R(config.idleRiskFactor)),
    maxSpeedSeverityScore |->
      calculateMaxSpeedSeverityScore(metrics, R(config.speedingThresholdKmh)),
    erraticPatternScore |-> calculateErraticPatternScore(metrics) ]

RiskWeightedScore(components, weights) ==
  RAdd(RAdd(RAdd(RMul(components.speedingScore, weights.speedingRatio),
                 RMul(components.longIdleFrequencyScore, weights.longIdleFrequency)),
            RMul(components.maxSpeedSeverityScore, weights.maxSpeedSeverity)),
       RMul(components.erraticPatternScore, weights.erraticPattern))

\* the bug: no early return for a period of no length
calculateRiskScore_noZeroGuard(metrics, weights, config) ==
  clamp(RiskWeightedScore(computeRiskComponents(metrics, config), weights),
        R(0), R(100))

\* the bug: the weighted sum is returned as it is
calculateRiskScore_unclamped(metrics, weights, config) ==
  IF metrics.totalTimeMinutes = R(0) THEN R(0)
  ELSE RiskWeightedScore(computeRiskComponents(metrics, config), weights)

calculateRiskScore(metrics, weights, config) ==
  IF metrics.totalTimeMinutes = R(0) THEN R(0)
  ELSE clamp(RiskWeightedScore(computeRiskComponents(metrics, config), weights),
             R(0), R(100))

getRiskBreakdown(metrics, weights, config) ==
  LET components == computeRiskComponents(metrics, config)
      finalScore == calculateRiskScore(metrics, weights, config)
  IN  [ components |-> components,
        weights |-> weights,
        contributions |->
          [ speeding |-> RMul(components.speedingScore, weights.speedingRatio),
            longIdleFrequency |->
              RMul(components.longIdleFrequencyScore, weights.longIdleFrequency),
            maxSpeedSeverity |->
              RMul(components.maxSpeedSeverityScore, weights.maxSpeedSeverity),
            erraticPattern |->
              RMul(components.erraticPatternScore, weights.erraticPattern) ],
        finalScore |-> finalScore ]

\* the bug: a factor goes in front of the factors of equal value
InsertFactor_beforeEqual(sorted, factor) ==
  LET before == {k \in 1..Len(sorted) : RLt(factor.value, sorted[k].value)}
  IN  SubSeq(sorted, 1, Cardinality(before)) \o <<factor>>
        \o SubSeq(sorted, Cardinality(before) + 1, Len(sorted))

\* factors.sort((a, b) => b.value - a.value), a stable sort, by insertion:
\* a factor goes behind the factors of greater or equal value
InsertFactor(sorted, factor) ==
  LET before == {k \in 1..Len(sorted) : RLe(factor.value, sorted[k].value)}
  IN  SubSeq(sorted, 1, Cardinality(before)) \o <<factor>>
        \o SubSeq(sorted, Cardinality(before) + 1, Len(sorted))

RECURSIVE SortFactors(_)
SortFactors(factors) ==
  IF factors = <<>> THEN <<>>
  ELSE InsertFactor(SortFactors(SubSeq(factors, 1, Len(factors) - 1)),
                    factors[Len(factors)])

getPrimaryRiskFactor(metrics, weights, config) ==
  LET contributions == getRiskBreakdown(metrics, weights, config).contributions
      factors ==
        << [name |-> "speeding", value |-> contributions.speeding],
           [name |-> "longIdleFrequency", value |-> contributions.longIdleFrequency],
           [name |-> "maxSpeedSeverity", value |-> contributions.maxSpeedSeverity],
           [name |-> "erraticPattern", value |-> contributions.erraticPattern] >>
  IN  SortFactors(factors)[1].name

\* ------------------------------------------------------------------------
\* analytics/baseMetrics.ts: rankings and fleet aggregation
\* ------------------------------------------------------------------------
\* the vehicle ids of the model, in the order localeCompare puts them
VehicleIds == <<"alpha", "bravo", "charlie", "delta", "echo">>

Collation(id) == CHOOSE k \in 1..Len(VehicleIds) : VehicleIds[k] = id

\* String.prototype.localeCompare: negative, zero or positive
localeCompare(a, b) ==
  IF Collation(a) < Collation(b) THEN -1
  ELSE IF Collation(a) > Collation(b) THEN 1
  ELSE 0

createRanking(vehicleId, vehicleName, score, rank) ==
  [vehicleId |-> vehicleId, vehicleName |-> vehicleName, score |-> score,
   rank |-> rank]

\* the bug: no tie-breaker, equal scores compare equal
compareByScoreDesc_noTieBreak(a, b) ==
  IF b.score # a.score
  THEN (IF RLt(a.score, b.score) THEN 1 ELSE -1)
  ELSE 0

\* the sign of b.score - a.score, and of the ids' comparison on a tie
compareByScoreDesc(a, b) ==
  IF b.score # a.score
  THEN (IF RLt(a.score, b.score) THEN 1 ELSE -1)
  ELSE localeCompare(a.vehicleId, b.vehicleId)

\* Array.prototype.sort(compareByScoreDesc) on a copy: a stable sort, here
\* by insertion.  InsertByScore puts entry e behind every entry of the
\* sorted sequence that does not compare after it.
RECURSIVE InsertByScore(_, _)
InsertByScore(sorted, e) ==
  IF sorted = <<>> THEN <<e>>
  ELSE IF compareByScoreDesc(sorted[1], e) <= 0
    THEN <<sorted[1]>> \o InsertByScore(Tail(sorted), e)
  ELSE <<e>> \o sorted

RECURSIVE SortByScoreDesc(_)
SortByScoreDesc(entries) ==
  IF entries = <<>> THEN <<>>
  ELSE InsertByScore(SortByScoreDesc(SubSeq(entries, 1, Len(entries) - 1)),
                     entries[Len(entries)])

\* the bug: the index is the rank, from 0
AssignRanks_fromZero(sorted) ==
  [k \in 1..Len(sorted) |->
     createRanking(sorted[k].vehicleId, sorted[k].vehicleId, sorted[k].score,
                   k - 1)]

\* the sorted entries with their sequential ranks
AssignRanks(sorted) ==
  [k \in 1..Len(sorted) |->
     createRanking(sorted[k].vehicleId, sorted[k].vehicleId, sorted[k].score, k)]

rankByEfficiency(metrics) ==
  IF Len(metrics) = 0 THEN <<>>
  ELSE AssignRanks(SortByScoreDesc(
         [k \in 1..Len(metrics) |->
            [vehicleId |-> metrics[k].vehicleId,
             score |-> metrics[k].efficiencyScore]]))

rankByRisk(metrics) ==
  IF Len(metrics) = 0 THEN <<>>
  ELSE AssignRanks(SortByScoreDesc(
         [k \in 1..Len(metrics) |->
            [vehicleId |-> metrics[k].vehicleId,
             score |-> metrics[k].riskScore]]))

\* the bug: the top-risk list is the whole risk ranking
getTopRiskVehicles_all(riskRankings, count) == riskRankings

\* Array.prototype.slice(0, count)
getTopRiskVehicles(riskRankings, count) ==
  SubSeq(riskRankings, 1, IF Len(riskRankings) < count THEN Len(riskRankings) ELSE count)

createEmptyFleetMetrics(periodStart, periodEnd) ==
  [ periodStart            |-> periodStart,
    periodEnd              |-> periodEnd,
    totalVehicles          |-> 0,
    totalDistanceKm        |-> R(0),
    totalIdleTimeMinutes   |-> R(0),
    totalMovingTimeMinutes |-> R(0),
    averageIdleRatio       |-> R(0),
    averageEfficiencyScore |-> R(0),
    averageRiskScore       |-> R(0),
    vehiclesByEfficiency   |-> <<>>,
    vehiclesByRisk         |-> <<>>,
    topRiskVehicles        |-> <<>> ]

\* the sums of the loop of aggregateFleetMetrics over the first k vehicles
RECURSIVE FleetSums(_, _)
FleetSums(vehicleMetrics, k) ==
  IF k = 0
  THEN [ totalDistanceKm |-> R(0), totalIdleTimeMinutes |-> R(0),
         totalMovingTimeMinutes |-> R(0), sumIdleRatio |-> R(0),
         sumEfficiencyScore |-> R(0), sumRiskScore |-> R(0) ]
  ELSE LET sums == FleetSums(vehicleMetrics, k - 1)
           metrics == vehicleMetrics[k]
       IN  [ totalDistanceKm |->
               RAdd(sums.totalDistanceKm, metrics.totalDistanceKm),
             totalIdleTimeMinutes |->
               RAdd(sums.totalIdleTimeMinutes, metrics.totalIdleTimeMinutes),
             totalMovingTimeMinutes |->
               RAdd(sums.totalMovingTimeMinutes, metrics.totalMovingTimeMinutes),
             sumIdleRatio |-> RAdd(sums.sumIdleRatio, metrics.idleRatio),
             sumEfficiencyScore |->
               RAdd(sums.sumEfficiencyScore, metrics.efficiencyScore),
             sumRiskScore |-> RAdd(sums.sumRiskScore, metrics.riskScore) ]

\* the bug: the idle ratio of the fleet's summed times, long trips
\* counting for more, in place of the mean of the vehicles' ratios
aggregateFleetMetrics_weighted(vehicleMetrics, periodStart, periodEnd) ==
  IF Len(vehicleMetrics) = 0 THEN createEmptyFleetMetrics(periodStart, periodEnd)
  ELSE
    LET totalVehicles == Len(vehicleMetrics)
        sums == FleetSums(vehicleMetrics, totalVehicles)
        vehiclesByRisk == rankByRisk(vehicleMetrics)
    IN  [ periodStart            |-> periodStart,
          periodEnd              |-> periodEnd,
          totalVehicles          |-> totalVehicles,
          totalDistanceKm        |-> sums.totalDistanceKm,
          totalIdleTimeMinutes   |-> sums.totalIdleTimeMinutes,
          totalMovingTimeMinutes |-> sums.totalMovingTimeMinutes,
          averageIdleRatio       |->
            safeDivide(sums.totalIdleTimeMinutes,
                       RAdd(sums.totalIdleTimeMinutes, sums.totalMovingTimeMinutes),
                       R(0)),
          averageEfficiencyScore |->
            safeDivide(sums.sumEfficiencyScore, R(totalVehicles), R(0)),
          averageRiskScore       |->
            safeDivide(sums.sumRiskScore, R(totalVehicles), R(0)),
          vehiclesByEfficiency   |-> rankByEfficiency(vehicleMetrics),
          vehiclesByRisk         |-> vehiclesByRisk,
          topRiskVehicles        |-> getTopRiskVehicles(vehiclesByRisk, 3) ]

aggregateFleetMetrics(vehicleMetrics, periodStart, periodEnd) ==
  IF Len(vehicleMetrics) = 0 THEN createEmptyFleetMetrics(periodStart, periodEnd)
  ELSE
    LET totalVehicles == Len(vehicleMetrics)
        sums == FleetSums(vehicleMetrics, totalVehicles)
        vehiclesByRisk == rankByRisk(vehicleMetrics)
    IN  [ periodStart            |-> periodStart,
          periodEnd              |-> periodEnd,
          totalVehicles          |-> totalVehicles,
          totalDistanceKm        |-> sums.totalDistanceKm,
          totalIdleTimeMinutes   |-> sums.totalIdleTimeMinutes,
          totalMovingTimeMinutes |-> sums.totalMovingTimeMinutes,
          averageIdleRatio       |->
            safeDivide(sums.sumIdleRatio, R(totalVehicles), R(0)),
          averageEfficiencyScore |->
            safeDivide(sums.sumEfficiencyScore, R(totalVehicles), R(0)),
          averageRiskScore       |->
            safeDivide(sums.sumRiskScore, R(totalVehicles), R(0)),
          vehiclesByEfficiency   |-> rankByEfficiency(vehicleMetrics),
          vehiclesByRisk         |-> vehiclesByRisk,
          topRiskVehicles        |-> getTopRiskVehicles(vehiclesByRisk, 3) ]

\* ------------------------------------------------------------------------
\* analytics/index.ts
\* ------------------------------------------------------------------------
\* the loop of computeBaseMetrics from index k on
RECURSIVE WalkFrom(_, _, _, _)
WalkFrom(l, points, k, config) ==
  IF k > Len(points) THEN l
  ELSE WalkFrom(LoopBody(l, points, k, config), points, k + 1, config)

computeBaseMetrics(t, c) ==
  IF Len(t.points) < 2 THEN ShortTrackMetrics(t)
  ELSE FinishBaseMetrics(WalkFrom(NewLocals, t.points, 1, c), t, c,
                         getDurationMinutes(t.startTime, t.endTime))

\* the loop of analyzeSpeedingTime from index k on
RECURSIVE SpeedingFrom(_, _, _, _)
SpeedingFrom(s, points, k, config) ==
  IF k > Len(points) - 1 THEN s
  ELSE SpeedingFrom(SpeedingBody(s, points, k, config), points, k + 1, config)

analyzeSpeedingTime(t, c) == SpeedingFrom(NewSpeedingAnalysis, t.points, 1, c)

\* computeFullMetricsWithScores after computeDerivedMetrics: the scores are
\* taken with the default weights and the default config
WithScores(baseM, derivedMetrics) ==
  [ derivedMetrics EXCEPT
      !.efficiencyScore =
         calculateEfficiencyScore(baseM, EFFICIENCY_WEIGHTS, ANALYTICS_CONFIG),
      !.riskScore =
         calculateRiskScore(derivedMetrics, RISK_WEIGHTS, ANALYTICS_CONFIG) ]

computeFullMetricsWithScores(t, c) ==
  LET base == computeBaseMetrics(t, c)
  IN  WithScores(base, computeDerivedMetrics(base, analyzeSpeedingTime(t, c)))

\* ------------------------------------------------------------------------
\* The cost model (index.ts) and the fleet cost aggregator (baseMetrics.ts)
\* ------------------------------------------------------------------------
FINANCIAL_DEFAULTS ==
  [ fuelCostPerLiter             |-> Frac(185, 100),
    idleConsumptionLitersPerHour |-> Frac(5, 2),
    speedingInsuranceMultiplier  |-> Frac(115, 100),
    operationalCostPerKm         |-> Frac(12, 100),
    baseInsuranceCostPerVehicle  |-> R(2400),
    operatingDaysPerMonth        |-> R(22) ]

MONTHS_PER_YEAR == 12

minutesToHours(minutes) == RDiv(minutes, R(60))

\* the bug: idle time below 0 is costed like any other
calculateDailyIdleCost_noGuard(totalIdleTimeMinutes, financials) ==
  RMul(RMul(minutesToHours(totalIdleTimeMinutes),
            financials.idleConsumptionLitersPerHour),
       financials.fuelCostPerLiter)

calculateDailyIdleCost(totalIdleTimeMinutes, financials) ==
  IF RLe(totalIdleTimeMinutes, R(0)) THEN R(0)
  ELSE LET idleTimeHours == minutesToHours(totalIdleTimeMinutes)
           litersConsumed ==
             RMul(idleTimeHours, financials.idleConsumptionLitersPerHour)
       IN  RMul(litersConsumed, financials.fuelCostPerLiter)

calculateMonthlyProjectedIdleCost(dailyIdleCost, financials) ==
  RMul(dailyIdleCost, financials.operatingDaysPerMonth)

\* the bug: the risk score is used as it comes
calculateInsuranceMultiplier_unclamped(riskScore, financials) ==
  LET excessMultiplier == RSub(financials.speedingInsuranceMultiplier, R(1))
      riskFraction == RDiv(riskScore, R(100))
  IN  RAdd(R(1), RMul(riskFraction, excessMultiplier))

calculateInsuranceMultiplier(riskScore, financials) ==
  LET clampedScore == RMax(R(0), RMin(R(100), riskScore))
      excessMultiplier == RSub(financials.speedingInsuranceMultiplier, R(1))
      riskFraction == RDiv(clampedScore, R(100))
  IN  RAdd(R(1), RMul(riskFraction, excessMultiplier))

calculateSpeedingRiskCost(riskScore, financials) ==
  IF RLe(riskScore, R(0)) THEN R(0)
  ELSE LET multiplier == calculateInsuranceMultiplier(riskScore, financials)
       IN  RMul(financials.baseInsuranceCostPerVehicle, RSub(multiplier, R(1)))

calculateAnnualProjectedLoss(monthlyIdleCost, speedingRiskCost) ==
  RAdd(RMul(monthlyIdleCost, R(MONTHS_PER_YEAR)), speedingRiskCost)

calculateVehicleCosts(metrics, financials) ==
  LET dailyIdleCost ==
        calculateDailyIdleCost(metrics.totalIdleTimeMinutes, financials)
      monthlyProjectedIdleCost ==
        calculateMonthlyProjectedIdleCost(dailyIdleCost, financials)
      speedingRiskCost == calculateSpeedingRiskCost(metrics.riskScore, financials)
  IN  [ vehicleId                |-> metrics.vehicleId,
        dailyIdleCost            |-> dailyIdleCost,
        monthlyProjectedIdleCost |-> monthlyProjectedIdleCost,
        speedingRiskCost         |-> speedingRiskCost,
        dailyTotalLoss           |-> dailyIdleCost,
        monthlyProjectedLoss     |-> monthlyProjectedIdleCost,
        annualProjectedLoss      |->
          calculateAnnualProjectedLoss(monthlyProjectedIdleCost, speedingRiskCost) ]

\* no vehicle: highestCostVehicle is null
NoVehicleCost == [vehicleId |-> "null"]

\* the bug: highestCostVehicle is left out, undefined in place of null
createEmptyFleetCostEstimation_noHighest(periodStart, periodEnd) ==
  [ periodStart                   |-> periodStart,
    periodEnd                     |-> periodEnd,
    totalDailyIdleCost            |-> R(0),
    totalMonthlyProjectedIdleCost |-> R(0),
    totalRiskAdjustedAnnualCost   |-> R(0),
    costByVehicle                 |-> <<>>,
    highestCostVehicle            |-> [vehicleId |-> "undefined"] ]

createEmptyFleetCostEstimation(periodStart, periodEnd) ==
  [ periodStart                   |-> periodStart,
    periodEnd                     |-> periodEnd,
    totalDailyIdleCost            |-> R(0),
    totalMonthlyProjectedIdleCost |-> R(0),
    totalRiskAdjustedAnnualCost   |-> R(0),
    costByVehicle                 |-> <<>>,
    highestCostVehicle            |-> NoVehicleCost ]

\* the bug: a later cost of the same loss takes the place of the highest
RECURSIVE HighestFrom_lastWins(_, _, _)
HighestFrom_lastWins(costs, k, highest) ==
  IF k > Len(costs) THEN highest
  ELSE HighestFrom_lastWins(costs, k + 1,
         IF RLe(highest.annualProjectedLoss, costs[k].annualProjectedLoss)
         THEN costs[k] ELSE highest)

\* the loop of findHighestCostVehicle from the k-th cost on
RECURSIVE HighestFrom(_, _, _)
HighestFrom(costs, k, highest) ==
  IF k > Len(costs) THEN highest
  ELSE HighestFrom(costs, k + 1,
         IF RLt(highest.annualProjectedLoss, costs[k].annualProjectedLoss)
         THEN costs[k] ELSE highest)

findHighestCostVehicle(costs) ==
  IF Len(costs) = 0 THEN NoVehicleCost ELSE HighestFrom(costs, 1, costs[1])

\* the totals of the loop of aggregateFleetCosts after the first k costs
RECURSIVE CostSums(_, _)
CostSums(vehicleCosts, k) ==
  IF k = 0
  THEN [ totalDailyIdleCost |-> R(0), totalMonthlyProjectedIdleCost |-> R(0),
         totalRiskAdjustedAnnualCost |-> R(0) ]
  ELSE LET sums == CostSums(vehicleCosts, k - 1)
           cost == vehicleCosts[k]
       IN  [ totalDailyIdleCost |->
               RAdd(sums.totalDailyIdleCost, cost.dailyIdleCost),
             totalMonthlyProjectedIdleCost |->
               RAdd(sums.totalMonthlyProjectedIdleCost,
                    cost.monthlyProjectedIdleCost),
             totalRiskAdjustedAnnualCost |->
               RAdd(sums.totalRiskAdjustedAnnualCost, cost.annualProjectedLoss) ]

aggregateFleetCosts(vehicleCosts, periodStart, periodEnd) ==
  IF Len(vehicleCosts) = 0
  THEN createEmptyFleetCostEstimation(periodStart, periodEnd)
  ELSE LET sums == CostSums(vehicleCosts, Len(vehicleCosts))
       IN  [ periodStart                   |-> periodStart,
             periodEnd                     |-> periodEnd,
             totalDailyIdleCost            |-> sums.totalDailyIdleCost,
             totalMonthlyProjectedIdleCost |-> sums.totalMonthlyProjectedIdleCost,
             totalRiskAdjustedAnnualCost   |-> sums.totalRiskAdjustedAnnualCost,
             costByVehicle                 |-> vehicleCosts,
             highestCostVehicle            |-> findHighestCostVehicle(vehicleCosts) ]

\* findHighestCostVehicle of the cost model (index.ts), a second function
\* of that name
findHighestCostVehicle_costModel(vehicleCosts) ==
  IF Len(vehicleCosts) = 0 THEN NoVehicleCost
  ELSE HighestFrom(vehicleCosts, 1, vehicleCosts[1])

\* the bug: the cost model takes the last of the costs of the highest loss
calculateFleetCosts_lastWins(vehicleCosts, periodStart, periodEnd) ==
  LET sums == CostSums(vehicleCosts, Len(vehicleCosts))
  IN  [ periodStart                   |-> periodStart,
        periodEnd                     |-> periodEnd,
        totalDailyIdleCost            |-> sums.totalDailyIdleCost,
        totalMonthlyProjectedIdleCost |-> sums.totalMonthlyProjectedIdleCost,
        totalRiskAdjustedAnnualCost   |-> sums.totalRiskAdjustedAnnualCost,
        costByVehicle                 |-> vehicleCosts,
        highestCostVehicle            |->
          IF Len(vehicleCosts) = 0 THEN NoVehicleCost
          ELSE HighestFrom_lastWins(vehicleCosts, 1, vehicleCosts[1]) ]

calculateFleetCosts(vehicleCosts, periodStart, periodEnd) ==
  IF Len(vehicleCosts) = 0
  THEN [ periodStart                   |-> periodStart,
         periodEnd                     |-> periodEnd,
         totalDailyIdleCost            |-> R(0),
         totalMonthlyProjectedIdleCost |-> R(0),
         totalRiskAdjustedAnnualCost   |-> R(0),
         costByVehicle                 |-> <<>>,
         highestCostVehicle            |-> NoVehicleCost ]
  ELSE LET sums == CostSums(vehicleCosts, Len(vehicleCosts))
       IN  [ periodStart                   |-> periodStart,
             periodEnd                     |-> periodEnd,
             totalDailyIdleCost            |-> sums.totalDailyIdleCost,
             totalMonthlyProjectedIdleCost |-> sums.totalMonthlyProjectedIdleCost,
             totalRiskAdjustedAnnualCost   |-> sums.totalRiskAdjustedAnnualCost,
             costByVehicle                 |-> vehicleCosts,
             highestCostVehicle            |->
               findHighestCostVehicle_costModel(vehicleCosts) ]

\* ------------------------------------------------------------------------
\* computeFullMetricsWithScores step by step, one call after another
\* ------------------------------------------------------------------------
VARIABLES
  pc,               \* where the current call stands
  track, config,    \* its arguments
  i,                \* loop index, 1-based
  accumulator, idleTracker, previousState,   \* locals of computeBaseMetrics
  baseMetrics,      \* what computeBaseMetrics returned
  speedingAnalysis, \* locals of analyzeSpeedingTime
  output,           \* what computeFullMetricsWithScores returned
  calls,            \* calls made so far
  scoring,          \* a call of the scorers: arguments and results
  fleet,            \* a call of the fleet aggregator: arguments and results
  costing,          \* the cost model run on a fleet: arguments and results
  insights,         \* a call of generateInsights: arguments, position, result
  analytics         \* a call of getFleetAnalytics: arguments, fetches, result

vars ==
  << pc, track, config, i, accumulator, idleTracker, previousState,
     baseMetrics, speedingAnalysis, output, calls, scoring, fleet, costing,
     insights, analytics >>

\* no call of generateInsights, no call of getFleetAnalytics
NoInsights == [pc |-> "none"]
NoAnalytics == [pc |-> "none"]

pipelineVars ==
  << pc, track, config, i, accumulator, idleTracker, previousState,
     baseMetrics, speedingAnalysis, output, calls >>

NoMetrics == createEmptyMetrics("", EmptyTime, EmptyTime, 0)
NoOutput == computeDerivedMetrics(NoMetrics, NewSpeedingAnalysis)

\* no scorer and no aggregator called
NoScoring == [called |-> {}]

NoFleet == [called |-> FALSE]

NoCosting == [stage |-> "none"]

Locals ==
  [accumulator |-> accumulator, idleTracker |-> idleTracker,
   previousState |-> previousState]

PipelineAtRest ==
  /\ pc = "ready"
  /\ track = NoTrack
  /\ config = ANALYTICS_CONFIG
  /\ i = 1
  /\ accumulator = NewLocals.accumulator
  /\ idleTracker = NewLocals.idleTracker
  /\ previousState = NewLocals.previousState
  /\ baseMetrics = NoMetrics
  /\ speedingAnalysis = NewSpeedingAnalysis
  /\ output = NoOutput
  /\ calls = 0

Init ==
  /\ insights = NoInsights
  /\ analytics = NoAnalytics
  /\ PipelineAtRest
  /\ scoring = NoScoring
  /\ fleet = NoFleet
  /\ costing = NoCosting

\* the bug: one idle tracker shared by all calls, never created anew
Call_sharedTracker(t, c) ==
  /\ pc \in {"ready", "done"}
  /\ calls < MaxCalls
  /\ calls' = calls + 1
  /\ track' = t
  /\ config' = c
  /\ i' = 1
  /\ accumulator' = NewLocals.accumulator
  /\ idleTracker' = idleTracker
  /\ previousState' = NewLocals.previousState
  /\ speedingAnalysis' = NewSpeedingAnalysis
  /\ output' = NoOutput
  /\ IF Len(t.points) < 2
     THEN baseMetrics' = ShortTrackMetrics(t) /\ pc' = "speeding"
     ELSE baseMetrics' = NoMetrics /\ pc' = "walk"
  /\ UNCHANGED <<scoring, fleet, costing, insights, analytics>>

\* computeFullMetricsWithScores(t, c) is called and computeBaseMetrics runs
\* up to its loop; a track of fewer than two points returns at once.
Call(t, c) ==
  /\ pc \in {"ready", "done"}
  /\ calls < MaxCalls
  /\ calls' = calls + 1
  /\ track' = t
  /\ config' = c
  /\ i' = 1
  /\ accumulator' = NewLocals.accumulator
  /\ idleTracker' = NewLocals.idleTracker
  /\ previousState' = NewLocals.previousState
  /\ speedingAnalysis' = NewSpeedingAnalysis
  /\ output' = NoOutput
  /\ IF Len(t.points) < 2
     THEN baseMetrics' = ShortTrackMetrics(t) /\ pc' = "speeding"
     ELSE baseMetrics' = NoMetrics /\ pc' = "walk"
  /\ UNCHANGED <<scoring, fleet, costing, insights, analytics>>

\* one pass of the loop of computeBaseMetrics
WalkStep ==
  /\ pc = "walk"
  /\ i <= Len(track.points)
  /\ LET l == LoopBody(Locals, track.points, i, config)
     IN  /\ accumulator' = l.accumulator
         /\ idleTracker' = l.idleTracker
         /\ previousState' = l.previousState
  /\ i' = i + 1
  /\ UNCHANGED <<pc, track, config, baseMetrics, speedingAnalysis, output, calls,
                 scoring, fleet, costing, insights, analytics>>

\* the loop is over: computeBaseMetrics returns, computeDerivedMetrics
\* starts analyzeSpeedingTime
WalkEnd ==
  /\ pc = "walk"
  /\ i > Len(track.points)
  /\ baseMetrics' =
       FinishBaseMetrics(Locals, track, config,
                         getDurationMinutes(track.startTime, track.endTime))
  /\ pc' = "speeding"
  /\ i' = 1
  /\ UNCHANGED <<track, config, accumulator, idleTracker, previousState,
                 speedingAnalysis, output, calls,
                 scoring, fleet, costing, insights, analytics>>

\* one pass of the loop of analyzeSpeedingTime
SpeedingStep ==
  /\ pc = "speeding"
  /\ i <= Len(track.points) - 1
  /\ speedingAnalysis' = SpeedingBody(speedingAnalysis, track.points, i, config)
  /\ i' = i + 1
  /\ UNCHANGED <<pc, track, config, accumulator, idleTracker, previousState,
                 baseMetrics, output, calls,
                 scoring, fleet, costing, insights, analytics>>

\* analyzeSpeedingTime and computeDerivedMetrics return, the scores are
\* filled in, computeFullMetricsWithScores returns
Return ==
  /\ pc = "speeding"
  /\ i > Len(track.points) - 1
  /\ output' =
       WithScores(baseMetrics, computeDerivedMetrics(baseMetrics, speedingAnalysis))
  /\ pc' = "done"
  /\ UNCHANGED <<track, config, i, accumulator, idleTracker, previousState,
                 baseMetrics, speedingAnalysis, calls, scoring, fleet, costing,
                 insights, analytics>>

\* one call of the pipeline on any track
Next ==
  \/ pc = "ready" /\ \E t \in Tracks, c \in Configs : Call(t, c)
  \/ WalkStep
  \/ WalkEnd
  \/ SpeedingStep
  \/ Return

Spec == Init /\ [][Next]_vars

\* call after call, the locals of a call still holding what the call
\* before left in them
NextRepeat ==
  \/ \E t \in RepeatTracks, c \in Configs : Call(t, c)
  \/ WalkStep
  \/ WalkEnd
  \/ SpeedingStep
  \/ Return

SpecRepeat == Init /\ [][NextRepeat]_vars

\* ------------------------------------------------------------------------
\* computeFullMetricsWithScores under configurations of any kind
\* ------------------------------------------------------------------------
\* tracks sampled on schedule
ScheduledTracks ==
  { [vehicleId |-> "v1", startTime |-> Iso(0),
     endTime |-> Iso(24 * 60),
     points |-> [k \in 1..n |-> GPSTrackPoint(kinds[k], OnSchedule(k))]]
      : n \in 0..MaxPoints, kinds \in [1..MaxPoints -> PointKinds] }

\* a speeding threshold below the idle threshold: a vehicle standing with
\* its engine running is speeding
LowSpeedingConfig == [ANALYTICS_CONFIG EXCEPT !.speedingThresholdKmh = 0]

AnyConfigs == Configs \cup {LowSpeedingConfig}

NextConfigured ==
  \/ pc = "ready" /\ \E t \in ScheduledTracks, c \in AnyConfigs : Call(t, c)
  \/ WalkStep
  \/ WalkEnd
  \/ SpeedingStep
  \/ Return

SpecConfigured == Init /\ [][NextConfigured]_vars

\* ------------------------------------------------------------------------
\* The scorers called on their own: calculateEfficiencyScore,
\* computeEfficiencyComponents, calculateRiskScore, computeRiskComponents
\* ------------------------------------------------------------------------
\* n long idle events, as many copies of one event: the scorers read only
\* the length of the list
IdleEventList(n) ==
  [k \in 1..n |->
     [ startTime |-> Iso(0), endTime |-> Iso(15),
       durationMinutes |-> R(15), location |-> NoLocation ]]

\* the derived metrics of one vehicle, as far as the scorers read them
ScoredRecord(idle, moving, total, km, stops, ratio, events, maxSpeed, averageSpeed) ==
  [ vehicleId              |-> "alpha",
    totalIdleTimeMinutes   |-> R(idle),
    totalMovingTimeMinutes |-> R(moving),
    totalTimeMinutes       |-> R(total),
    totalDistanceKm        |-> R(km),
    numberOfStops          |-> stops,
    aggressiveDrivingRatio |-> ratio,
    longIdleEvents         |-> IdleEventList(events),
    maxSpeedKmh            |-> R(maxSpeed),
    averageSpeedKmh        |-> R(averageSpeed) ]

\* periods of no length, of a working day and of four days
ScoredPeriods == {0, 8 * 60, 4 * 24 * 60}

\* the metrics the scorers are given, finite numbers, plausible and not:
\* what the efficiency scorer reads varies, or what the risk scorer reads
ScoredMetrics ==
  { ScoredRecord(idle, moving, total, km, stops, Frac(1, 4), 0, 60, 60) :
      idle \in {0, 90}, moving \in {-30, 30, 2000}, total \in ScoredPeriods,
      km \in {0, 5000}, stops \in {0, 1000} }
  \cup
  { ScoredRecord(90, 30, total, 0, 0, ratio, events, maxSpeed, averageSpeed) :
      total \in ScoredPeriods,
      ratio \in {Frac(-1, 2), Frac(1, 4), R(1), R(3)},
      events \in {0, 3, MaxLongIdleEvents},
      maxSpeed \in {0, 120, 500}, averageSpeed \in {0, 60} }

\* weights that sum to 4 and weights below zero
HeavyEfficiencyWeights ==
  [ idleRatio |-> R(1), utilizationRate |-> R(1),
    distanceEfficiency |-> R(1), stopEfficiency |-> R(1) ]

NegativeEfficiencyWeights ==
  [ idleRatio |-> Frac(-1, 2), utilizationRate |-> Frac(-1, 2),
    distanceEfficiency |-> Frac(-1, 2), stopEfficiency |-> Frac(-1, 2) ]

HeavyRiskWeights ==
  [ speedingRatio |-> R(1), longIdleFrequency |-> R(1),
    maxSpeedSeverity |-> R(1), erraticPattern |-> R(1) ]

NegativeRiskWeights ==
  [ speedingRatio |-> Frac(-1, 2), longIdleFrequency |-> Frac(-1, 2),
    maxSpeedSeverity |-> Frac(-1, 2), erraticPattern |-> Frac(-1, 2) ]

\* a configuration nobody would choose
ExtremeConfig ==
  [ ANALYTICS_CONFIG EXCEPT !.expectedKmPerHour = 0,
                            !.stopPenaltyFactor = -50,
                            !.idleRiskFactor = 1000,
                            !.speedingThresholdKmh = 0 ]

ScoringCalls ==
  { [ called |-> {}, metrics |-> m, efficiencyWeights |-> ew,
      riskWeights |-> rw, config |-> c ] :
      m \in ScoredMetrics,
      ew \in {EFFICIENCY_WEIGHTS, HeavyEfficiencyWeights, NegativeEfficiencyWeights},
      rw \in {RISK_WEIGHTS, HeavyRiskWeights, NegativeRiskWeights},
      c \in {ANALYTICS_CONFIG, ExtremeConfig} }

InitScore ==
  /\ insights = NoInsights
  /\ analytics = NoAnalytics
  /\ PipelineAtRest
  /\ fleet = NoFleet
  /\ costing = NoCosting
  /\ scoring \in ScoringCalls

\* calculateEfficiencyScore and computeEfficiencyComponents are called
EvalEfficiency ==
  /\ "efficiency" \notin scoring.called
  /\ scoring' =
       [called |-> scoring.called \cup {"efficiency"}] @@
       [ efficiencyScore |->
           calculateEfficiencyScore(scoring.metrics, scoring.efficiencyWeights,
                                    scoring.config),
         efficiencyComponents |->
           computeEfficiencyComponents(scoring.metrics, scoring.config) ] @@
       scoring
  /\ UNCHANGED <<pipelineVars, fleet, costing, insights, analytics>>

\* calculateRiskScore and computeRiskComponents are called
EvalRisk ==
  /\ "risk" \notin scoring.called
  /\ scoring' =
       [called |-> scoring.called \cup {"risk"}] @@
       [ riskScore |->
           calculateRiskScore(scoring.metrics, scoring.riskWeights,
                              scoring.config),
         riskComponents |->
           computeRiskComponents(scoring.metrics, scoring.config) ] @@
       scoring
  /\ UNCHANGED <<pipelineVars, fleet, costing, insights, analytics>>

\* getPrimaryRiskFactor is called
EvalPrimaryRiskFactor ==
  /\ "primary" \notin scoring.called
  /\ scoring' =
       [called |-> scoring.called \cup {"primary"}] @@
       [ primaryRiskFactor |->
           getPrimaryRiskFactor(scoring.metrics, scoring.riskWeights,
                                scoring.config) ] @@
       scoring
  /\ UNCHANGED <<pipelineVars, fleet, costing, insights, analytics>>

NextScore == EvalEfficiency \/ EvalRisk \/ EvalPrimaryRiskFactor

SpecScore == InitScore /\ [][NextScore]_vars

\* ------------------------------------------------------------------------
\* The fleet aggregator called on a list of vehicle metrics
\* ------------------------------------------------------------------------
\* a long, a short and a day's trip, with efficiency and risk scores that
\* tie in one ranking, the other, or both
ScoreProfiles ==
  { [totalDistanceKm |-> R(120), totalIdleTimeMinutes |-> R(90),
     totalMovingTimeMinutes |-> R(270), idleRatio |-> Frac(1, 4),
     efficiencyScore |-> R(80), riskScore |-> R(20)],
    [totalDistanceKm |-> R(10), totalIdleTimeMinutes |-> R(20),
     totalMovingTimeMinutes |-> R(20), idleRatio |-> Frac(1, 2),
     efficiencyScore |-> R(80), riskScore |-> Frac(121, 2)],
    [totalDistanceKm |-> R(400), totalIdleTimeMinutes |-> R(0),
     totalMovingTimeMinutes |-> R(480), idleRatio |-> R(0),
     efficiencyScore |-> Frac(101, 2), riskScore |-> Frac(121, 2)] }

\* the derived metrics of one vehicle, as far as the aggregator reads them
VehicleMetrics(vehicleId, profile) ==
  [ vehicleId              |-> vehicleId,
    totalDistanceKm        |-> profile.totalDistanceKm,
    totalIdleTimeMinutes   |-> profile.totalIdleTimeMinutes,
    totalMovingTimeMinutes |-> profile.totalMovingTimeMinutes,
    idleRatio              |-> profile.idleRatio,
    efficiencyScore        |-> profile.efficiencyScore,
    riskScore              |-> profile.riskScore ]

FleetIds == {"alpha", "bravo", "charlie", "delta"}

\* lists of up to MaxVehicles vehicles with distinct ids, in any order
Fleets ==
  UNION { { [k \in 1..n |-> VehicleMetrics(ids[k], profiles[k])] :
              ids \in {f \in [1..n -> FleetIds] :
                         \A a, b \in 1..n : f[a] = f[b] => a = b},
              profiles \in [1..n -> ScoreProfiles] } :
          n \in 0..MaxVehicles }

\* lists of MaxRankedVehicles vehicles, more than the top-risk list takes
LargeFleets ==
  { [k \in 1..MaxRankedVehicles |-> VehicleMetrics(VehicleIds[k], profiles[k])] :
      profiles \in [1..MaxRankedVehicles -> ScoreProfiles] }

InitFleet ==
  /\ insights = NoInsights
  /\ analytics = NoAnalytics
  /\ PipelineAtRest
  /\ scoring = NoScoring
  /\ fleet \in {[called |-> FALSE, vehicleMetrics |-> f] :
                  f \in Fleets \cup LargeFleets}
  /\ costing = NoCosting

\* the bug: the caller's list is put in order of efficiency
Aggregate_sortsInput ==
  /\ ~fleet.called
  /\ fleet' =
       [ called |-> TRUE,
         vehicleMetrics |->
           [k \in 1..Len(fleet.vehicleMetrics) |->
              CHOOSE m \in {fleet.vehicleMetrics[j] : j \in 1..Len(fleet.vehicleMetrics)} :
                m.vehicleId = rankByEfficiency(fleet.vehicleMetrics)[k].vehicleId],
         fleetMetrics |->
           aggregateFleetMetrics(fleet.vehicleMetrics, Iso(0), Iso(24 * 60)) ]
  /\ UNCHANGED <<pipelineVars, scoring, costing, insights, analytics>>

\* aggregateFleetMetrics is called on the list
Aggregate ==
  /\ ~fleet.called
  /\ fleet' =
       [ called |-> TRUE,
         vehicleMetrics |-> fleet.vehicleMetrics,
         fleetMetrics |->
           aggregateFleetMetrics(fleet.vehicleMetrics, Iso(0), Iso(24 * 60)) ]
  /\ UNCHANGED <<pipelineVars, scoring, costing, insights, analytics>>

NextFleet == Aggregate

SpecFleet == InitFleet /\ [][NextFleet]_vars

\* ------------------------------------------------------------------------
\* The cost model run on the metrics of a fleet
\* ------------------------------------------------------------------------
\* idle minutes and risk scores, some out of range, of one vehicle
CostProfiles ==
  { [totalIdleTimeMinutes |-> R(-30), riskScore |-> R(-10)],
    [totalIdleTimeMinutes |-> R(0),   riskScore |-> R(0)],
    [totalIdleTimeMinutes |-> R(90),  riskScore |-> R(25)],
    [totalIdleTimeMinutes |-> R(90),  riskScore |-> Frac(101, 2)],
    [totalIdleTimeMinutes |-> R(45),  riskScore |-> R(100)],
    [totalIdleTimeMinutes |-> R(90),  riskScore |-> R(150)] }

\* the derived metrics of one vehicle, as far as the cost model reads them
CostedMetrics(vehicleId, profile) ==
  [ vehicleId            |-> vehicleId,
    totalIdleTimeMinutes |-> profile.totalIdleTimeMinutes,
    riskScore            |-> profile.riskScore ]

\* lists of up to MaxVehicles vehicles
CostedFleets ==
  UNION { { [k \in 1..n |-> CostedMetrics(VehicleIds[k], profiles[k])] :
              profiles \in [1..n -> CostProfiles] } :
          n \in 0..MaxVehicles }

\* the defaults, no premium for risk, a doubled premium, a discount for
\* risk, other prices of idling
Financials ==
  { FINANCIAL_DEFAULTS,
    [FINANCIAL_DEFAULTS EXCEPT !.fuelCostPerLiter = R(2),
                               !.idleConsumptionLitersPerHour = R(1),
                               !.operatingDaysPerMonth = R(30)],
    [FINANCIAL_DEFAULTS EXCEPT !.speedingInsuranceMultiplier = R(1)],
    [FINANCIAL_DEFAULTS EXCEPT !.speedingInsuranceMultiplier = R(2),
                               !.baseInsuranceCostPerVehicle = R(1000)],
    [FINANCIAL_DEFAULTS EXCEPT !.speedingInsuranceMultiplier = Frac(9, 10)] }

\* the bounds of the period, strings that the aggregators hand through
CostPeriods == { <<Iso(0), Iso(24 * 60)>>, <<GarbageTime, EmptyTime>> }

InitCost ==
  /\ insights = NoInsights
  /\ analytics = NoAnalytics
  /\ PipelineAtRest
  /\ scoring = NoScoring
  /\ fleet = NoFleet
  /\ costing \in {[stage |-> "metrics", vehicleMetrics |-> f, financials |-> c,
                     periodStart |-> p[1], periodEnd |-> p[2]] :
                    f \in CostedFleets, c \in Financials, p \in CostPeriods}

\* calculateVehicleCosts is called on every vehicle of the list
CalculateVehicleCosts ==
  /\ costing.stage = "metrics"
  /\ costing' =
       [ stage |-> "costs",
         vehicleMetrics |-> costing.vehicleMetrics,
         financials |-> costing.financials,
         periodStart |-> costing.periodStart,
         periodEnd |-> costing.periodEnd,
         vehicleCosts |->
           [k \in 1..Len(costing.vehicleMetrics) |->
              calculateVehicleCosts(costing.vehicleMetrics[k], costing.financials)] ]
  /\ UNCHANGED <<pipelineVars, scoring, fleet, insights, analytics>>

\* aggregateFleetCosts is called on the list of costs
AggregateFleetCosts ==
  /\ costing.stage = "costs"
  /\ costing' =
       [ stage |-> "fleet",
         vehicleMetrics |-> costing.vehicleMetrics,
         financials |-> costing.financials,
         periodStart |-> costing.periodStart,
         periodEnd |-> costing.periodEnd,
         vehicleCosts |-> costing.vehicleCosts,
         fleetCosts |->
           aggregateFleetCosts(costing.vehicleCosts, costing.periodStart,
                               costing.periodEnd) ]
  /\ UNCHANGED <<pipelineVars, scoring, fleet, insights, analytics>>

\* calculateFleetCosts is called on the same list of costs
CalculateFleetCosts ==
  /\ costing.stage = "fleet"
  /\ costing' =
       [ stage |-> "both",
         vehicleMetrics |-> costing.vehicleMetrics,
         financials |-> costing.financials,
         periodStart |-> costing.periodStart,
         periodEnd |-> costing.periodEnd,
         vehicleCosts |-> costing.vehicleCosts,
         fleetCosts |-> costing.fleetCosts,
         modelCosts |->
           calculateFleetCosts(costing.vehicleCosts, costing.periodStart,
                               costing.periodEnd) ]
  /\ UNCHANGED <<pipelineVars, scoring, fleet, insights, analytics>>

NextCost == CalculateVehicleCosts \/ AggregateFleetCosts \/ CalculateFleetCosts

SpecCost == InitCost /\ [][NextCost]_vars

\* ------------------------------------------------------------------------
\* The stages of the pipeline, each on its own inputs
\* ------------------------------------------------------------------------
InitStages == Init \/ InitFleet \/ InitCost

NextStages ==
  \/ /\ fleet = NoFleet /\ costing = NoCosting /\ pc = "ready"
     /\ \E t \in ScheduledTracks, c \in Configs : Call(t, c)
  \/ WalkStep
  \/ WalkEnd
  \/ SpeedingStep
  \/ Return
  \/ fleet # NoFleet /\ Aggregate
  \/ CalculateVehicleCosts
  \/ AggregateFleetCosts
  \/ CalculateFleetCosts

SpecStages == InitStages /\ [][NextStages]_vars

\* ------------------------------------------------------------------------
\* The insights entry point: generateInsights and its rule-based fallback
\* ------------------------------------------------------------------------
\* what reading a field the request body does not carry yields, and the
\* NaN that arithmetic on it yields: no number
Undefined == [n |-> 0, d |-> 0]
Defined(x) == x # Undefined

\* an exception leaves the function
Thrown(error) == [threw |-> TRUE, value |-> error]
Returned(value) == [threw |-> FALSE, value |-> value]

\* one vehicle of a request, as far as the prompt and the fallback read it
InsightsVehicle(vehicleId, profile) ==
  [ vehicleId              |-> vehicleId,
    idleRatio              |-> profile.idleRatio,
    aggressiveDrivingRatio |-> Frac(1, 20),
    efficiencyScore        |-> profile.efficiencyScore,
    riskScore              |-> profile.riskScore,
    totalDistanceKm        |-> profile.totalDistanceKm ]

\* a vehicle of a request body that names the vehicle and nothing else
UntypedVehicle(vehicleId) ==
  [ vehicleId              |-> vehicleId,
    idleRatio              |-> Undefined,
    aggressiveDrivingRatio |-> Undefined,
    efficiencyScore        |-> Undefined,
    riskScore              |-> Undefined,
    totalDistanceKm        |-> Undefined ]

InsightsVehicles(vehicleId) ==
  {InsightsVehicle(vehicleId, p) : p \in ScoreProfiles}
    \cup {UntypedVehicle(vehicleId)}

MaxInsightVehicles == 2

InsightsVehicleLists ==
  UNION { {l \in [1..n -> UNION {InsightsVehicles(VehicleIds[k]) : k \in 1..n}] :
             \A k \in 1..n : l[k].vehicleId = VehicleIds[k]} :
          n \in 0..MaxInsightVehicles }

\* fleetMetrics of a request body: none, the typed object, an empty object
InsightsFleetMetrics(n) ==
  { [present |-> FALSE],
    [present |-> TRUE, totalVehicles |-> R(n), totalDistanceKm |-> R(530)],
    [present |-> TRUE, totalVehicles |-> Undefined, totalDistanceKm |-> Undefined] }

\* fleetCosts of a request body: none, typed without and with a highest
\* cost vehicle, an empty object
InsightsFleetCosts ==
  { [present |-> FALSE],
    [present |-> TRUE, totalDailyIdleCost |-> Frac(111, 16),
     totalMonthlyProjectedIdleCost |-> Frac(1221, 8),
     totalRiskAdjustedAnnualCost |-> Frac(3843, 2),
     highestCostVehicle |-> NoVehicleCost],
    [present |-> TRUE, totalDailyIdleCost |-> Frac(111, 16),
     totalMonthlyProjectedIdleCost |-> Frac(1221, 8),
     totalRiskAdjustedAnnualCost |-> R(12000),
     highestCostVehicle |->
       [vehicleId |-> "alpha", annualProjectedLoss |-> R(12000),
        monthlyProjectedIdleCost |-> Frac(1221, 8)]],
    [present |-> TRUE, totalDailyIdleCost |-> Undefined,
     totalMonthlyProjectedIdleCost |-> Undefined,
     totalRiskAdjustedAnnualCost |-> Undefined,
     highestCostVehicle |-> NoVehicleCost] }

InsightsRequests ==
  { [vehicleMetrics |-> l, fleetMetrics |-> m, fleetCosts |-> c] :
      l \in InsightsVehicleLists,
      m \in UNION {InsightsFleetMetrics(n) : n \in 0..MaxInsightVehicles},
      c \in InsightsFleetCosts }

\* validateRequest: vehicles, fleet metrics and fleet costs are there
validateRequest(request) ==
  IF Len(request.vehicleMetrics) = 0
    THEN [valid |-> FALSE, error |-> "No vehicle metrics provided"]
    ELSE IF ~request.fleetMetrics.present
      THEN [valid |-> FALSE, error |-> "No fleet metrics provided"]
      ELSE IF ~request.fleetCosts.present
        THEN [valid |-> FALSE, error |-> "No fleet costs provided"]
        ELSE [valid |-> TRUE, error |-> "none"]

\* the values buildPrompt formats with toFixed, which throws on undefined
PromptNumbers(request) ==
  { request.fleetMetrics.totalDistanceKm,
    request.fleetCosts.totalDailyIdleCost,
    request.fleetCosts.totalMonthlyProjectedIdleCost,
    request.fleetCosts.totalRiskAdjustedAnnualCost }
    \cup (IF request.fleetCosts.highestCostVehicle = NoVehicleCost THEN {}
          ELSE {request.fleetCosts.highestCostVehicle.annualProjectedLoss})
    \cup UNION { { request.vehicleMetrics[k].efficiencyScore,
                   request.vehicleMetrics[k].riskScore,
                   request.vehicleMetrics[k].totalDistanceKm } :
                 k \in 1..Len(request.vehicleMetrics) }

buildPrompt(request) ==
  IF Undefined \in PromptNumbers(request)
    THEN Thrown("TypeError")
    ELSE Returned("prompt")

\* reduce((sum, v) => sum + v.field, 0) / length: NaN once a field is missing
RECURSIVE SumOver(_, _, _)
SumOver(list, Field(_), k) ==
  IF k = 0 THEN R(0) ELSE RAdd(SumOver(list, Field, k - 1), Field(list[k]))

AverageOver(list, Field(_)) ==
  IF \E k \in 1..Len(list) : ~Defined(Field(list[k]))
    THEN Undefined
    ELSE RDiv(SumOver(list, Field, Len(list)), R(Len(list)))

\* x > y and x < y of JavaScript: false when x is not a number
Above(x, y) == Defined(x) /\ RLt(y, x)
Below(x, y) == Defined(x) /\ RLt(x, y)

determinePrimaryRisk(request) ==
  LET vs == request.vehicleMetrics
      IdleOf(v) == v.idleRatio
      SpeedingOf(v) == v.aggressiveDrivingRatio
      EfficiencyOf(v) == v.efficiencyScore
      RiskOf(v) == v.riskScore
      avgRisk == AverageOver(vs, RiskOf)
  IN  [ category |->
          IF Above(AverageOver(vs, IdleOf), Frac(35, 100)) THEN "IDLE_TIME"
          ELSE IF Above(AverageOver(vs, SpeedingOf), Frac(15, 100)) THEN "SPEEDING"
          ELSE IF Below(AverageOver(vs, EfficiencyOf), R(50)) THEN "INEFFICIENCY"
          ELSE IF Above(request.fleetCosts.totalRiskAdjustedAnnualCost, R(10000))
            THEN "COST"
          ELSE "IDLE_TIME",
        severity |->
          IF Defined(avgRisk) /\ RLe(R(70), avgRisk) THEN "CRITICAL"
          ELSE IF Defined(avgRisk) /\ RLe(R(50), avgRisk) THEN "HIGH"
          ELSE IF Defined(avgRisk) /\ RLe(R(30), avgRisk) THEN "MODERATE"
          ELSE "LOW" ]

\* [...vehicleMetrics].sort((a, b) => a.efficiencyScore - b.efficiencyScore)[0]
\* on the lists of the model: the sort is stable and takes NaN for a tie
WorstVehicle(vs) ==
  IF /\ Len(vs) = 2
     /\ Defined(vs[1].efficiencyScore) /\ Defined(vs[2].efficiencyScore)
     /\ RLt(vs[2].efficiencyScore, vs[1].efficiencyScore)
    THEN vs[2]
    ELSE vs[1]

\* the priorities and targets of the recommendations; toFixed throws on the
\* highest cost vehicle's loss and on the worst vehicle's score if missing
generateRecommendations(request) ==
  LET vs == request.vehicleMetrics
      highest == request.fleetCosts.highestCostVehicle
      IdleOf(v) == v.idleRatio
      first == IF highest = NoVehicleCost THEN <<>>
               ELSE <<[priority |-> 1, target |-> highest.vehicleId]>>
      second == IF Above(AverageOver(vs, IdleOf), Frac(1, 4))
                  THEN <<[priority |-> 2, target |-> "ALL"]>> ELSE <<>>
      third == <<[priority |-> 3, target |-> WorstVehicle(vs).vehicleId]>>
      fourth == <<[priority |-> 4, target |-> "ALL"]>>
  IN  IF \/ highest # NoVehicleCost /\ ~Defined(highest.annualProjectedLoss)
         \/ ~Defined(WorstVehicle(vs).efficiencyScore)
        THEN Thrown("TypeError")
        ELSE Returned(first \o second \o third \o fourth)

\* the request has passed validateRequest
generateFallbackInsights(request) ==
  LET topRisk == determinePrimaryRisk(request)
      recommendations == generateRecommendations(request)
  IN  IF recommendations.threw
        THEN recommendations
        ELSE IF \/ ~Defined(request.fleetCosts.totalDailyIdleCost)
                \/ ~Defined(request.fleetCosts.totalMonthlyProjectedIdleCost)
                \/ ~Defined(request.fleetCosts.totalRiskAdjustedAnnualCost)
          THEN Thrown("TypeError")
          ELSE Returned([topRisk |-> topRisk,
                         recommendations |-> recommendations.value])

\* what callLLM can resolve with, and the codes of the LLMError it can
\* throw once isLLMConfigured() has held
LLMContents == {"insights json", "not json", "other json"}
LLMErrorCodes == {"TIMEOUT", "EMPTY_RESPONSE", "API_ERROR", "RATE_LIMITED"}

parseResponse(rawResponse) ==
  IF rawResponse = "not json"
    THEN [success |-> FALSE, code |-> "INVALID_JSON", data |-> "none"]
    ELSE IF rawResponse = "other json"
      THEN [success |-> FALSE, code |-> "SCHEMA_ERROR", data |-> "none"]
      ELSE [success |-> TRUE, code |-> "none", data |-> "llm insights"]

codeMap(code) ==
  CASE code = "TIMEOUT" -> "AI_TIMEOUT"
    [] code = "NOT_CONFIGURED" -> "AI_NOT_CONFIGURED"
    [] code = "EMPTY_RESPONSE" -> "AI_EMPTY_RESPONSE"
    [] code = "API_ERROR" -> "AI_API_ERROR"
    [] code = "RATE_LIMITED" -> "AI_API_ERROR"
    [] OTHER -> "AI_API_ERROR"

\* the promise of generateInsights settles
Resolve(result) == [insights EXCEPT !.pc = "resolved", !.result = result]
Reject(error) == [insights EXCEPT !.pc = "rejected", !.result = error]
Failure(code) == Resolve([success |-> FALSE, code |-> code])

\* return { success: true, data: generateFallbackInsights(request), ... }
ReturnFallback ==
  LET data == generateFallbackInsights(insights.request)
  IN  IF data.threw
        THEN Reject(data.value)
        ELSE Resolve([success |-> TRUE, source |-> "fallback", data |-> data.value])

\* the catch block of generateInsights
Catch(error) ==
  IF insights.useFallbackOnError
    THEN ReturnFallback
    ELSE IF error \in LLMErrorCodes
      THEN Failure(codeMap(error))
      ELSE Failure("AI_API_ERROR")

InitInsights ==
  /\ PipelineAtRest
  /\ scoring = NoScoring
  /\ fleet = NoFleet
  /\ costing = NoCosting
  /\ analytics = NoAnalytics
  /\ insights \in { [pc |-> "start", request |-> r, useFallbackOnError |-> u,
                     aiConfigured |-> a, llm |-> "not called",
                     result |-> "none"] :
                      r \in InsightsRequests, u \in BOOLEAN, a \in BOOLEAN }

\* generateInsights is called and runs up to its await
GenerateInsights ==
  /\ insights.pc = "start"
  /\ insights' =
       IF ~validateRequest(insights.request).valid
         THEN Failure("AI_SCHEMA_ERROR")
         ELSE IF ~insights.aiConfigured
           THEN IF insights.useFallbackOnError
                  THEN ReturnFallback
                  ELSE Failure("AI_NOT_CONFIGURED")
           ELSE IF buildPrompt(insights.request).threw
             THEN Catch(buildPrompt(insights.request).value)
             ELSE [insights EXCEPT !.pc = "awaiting"]
  /\ UNCHANGED <<pipelineVars, scoring, fleet, costing, analytics>>

\* callLLM resolves and generateInsights runs on from its await
CallLLMResolves ==
  /\ insights.pc = "awaiting"
  /\ \E rawResponse \in LLMContents :
       LET parseResult == parseResponse(rawResponse)
       IN  insights' =
             IF ~parseResult.success
               THEN IF insights.useFallbackOnError
                      THEN [ReturnFallback EXCEPT !.llm = rawResponse]
                      ELSE [Failure(IF parseResult.code = "INVALID_JSON"
                                      THEN "AI_INVALID_RESPONSE"
                                      ELSE "AI_SCHEMA_ERROR")
                              EXCEPT !.llm = rawResponse]
               ELSE [Resolve([success |-> TRUE, source |-> "llm",
                              data |-> parseResult.data])
                       EXCEPT !.llm = rawResponse]
  /\ UNCHANGED <<pipelineVars, scoring, fleet, costing, analytics>>

\* callLLM throws and generateInsights runs on in its catch block
CallLLMRejects ==
  /\ insights.pc = "awaiting"
  /\ \E error \in LLMErrorCodes :
       insights' = [Catch(error) EXCEPT !.llm = error]
  /\ UNCHANGED <<pipelineVars, scoring, fleet, costing, analytics>>

NextInsights == GenerateInsights \/ CallLLMResolves \/ CallLLMRejects

SpecInsights == InitInsights /\ [][NextInsights]_vars

\* ------------------------------------------------------------------------
\* The fleet analytics service: getFleetAnalytics
\* ------------------------------------------------------------------------
\* a track as the GPS client returns it, given by the vehicle it belongs to
\* and by what the metrics pipeline derives from it
computeFullMetrics(t) == VehicleMetrics(t.vehicleId, t.profile)

computeVehicleCosts(metrics) == calculateVehicleCosts(metrics, FINANCIAL_DEFAULTS)

\* the vehicles of getVehicles(), each with the track its fetch would
\* return: a day with idling, or a day on the road
AnalyticsProfiles == {p \in ScoreProfiles : p.totalDistanceKm # R(10)}

AnalyticsFleets ==
  UNION { { [k \in 1..n |-> [vehicleId |-> VehicleIds[k], profile |-> profiles[k]]] :
              profiles \in [1..n -> AnalyticsProfiles] } :
          n \in 0..MaxVehicles }

\* for (const track of tracks): the metrics and the costs of the first k
\* entries of tracks, null entries skipped
RECURSIVE CollectMetrics(_, _, _)
CollectMetrics(vehicles, tracks, k) ==
  IF k = 0 THEN <<>>
  ELSE IF tracks[k] = "null"
    THEN CollectMetrics(vehicles, tracks, k - 1)
    ELSE Append(CollectMetrics(vehicles, tracks, k - 1),
                computeFullMetrics(vehicles[k]))

CollectCosts(vehicleMetrics) ==
  [j \in 1..Len(vehicleMetrics) |-> computeVehicleCosts(vehicleMetrics[j])]

\* what the callback of getFleetAnalytics returns once tracks is there
FleetAnalyticsResponse(vehicles, tracks, start, end) ==
  LET vehicleMetrics == CollectMetrics(vehicles, tracks, Len(vehicles))
      vehicleCosts == CollectCosts(vehicleMetrics)
  IN  [ periodStart    |-> start,
        periodEnd      |-> end,
        fleetMetrics   |-> aggregateFleetMetrics(vehicleMetrics, start, end),
        fleetCosts     |-> calculateFleetCosts(vehicleCosts, start, end),
        vehicleMetrics |-> vehicleMetrics ]

\* what getFleetAnalytics resolves with and cacheWrap stores: the callback's
\* value on the array that Promise.all resolved with
FleetAnalyticsResult ==
  FleetAnalyticsResponse(analytics.vehicles, analytics.awaited,
                         analytics.start, analytics.end)

InitAnalytics ==
  /\ PipelineAtRest
  /\ scoring = NoScoring
  /\ fleet = NoFleet
  /\ costing = NoCosting
  /\ insights = NoInsights
  /\ analytics \in { [pc |-> "called", start |-> Iso(0), end |-> Iso(24 * 60),
                      vehicles |-> f, tracks |-> <<>>, settled |-> <<>>,
                      awaited |-> <<>>, cached |-> FALSE, calls |-> 1] :
                       f \in AnalyticsFleets }

\* the cache misses, getVehicles() resolves, and a fetch of the track of
\* every vehicle is started before Promise.all is awaited
GetVehiclesResolves ==
  /\ analytics.pc = "called"
  /\ ~analytics.cached
  /\ analytics' = [analytics EXCEPT
       !.pc = "fetching",
       !.tracks = [k \in 1..Len(analytics.vehicles) |-> "pending"]]
  /\ UNCHANGED <<pipelineVars, scoring, fleet, costing, insights>>

\* the cache misses and getVehicles() rejects
GetVehiclesRejects ==
  /\ analytics.pc = "called"
  /\ ~analytics.cached
  /\ analytics' = [analytics EXCEPT !.pc = "rejected"]
  /\ UNCHANGED <<pipelineVars, scoring, fleet, costing, insights>>

\* getVehicleTrack(v.id, start, end) settles: with the track, or with an
\* error that the catch callback turns into null
TrackFetchSettles ==
  /\ analytics.pc = "fetching"
  /\ \E k \in 1..Len(analytics.vehicles), value \in {"track", "null"} :
       /\ analytics.tracks[k] = "pending"
       /\ analytics' = [analytics EXCEPT
            !.tracks[k] = value,
            !.settled = Append(analytics.settled, k)]
  /\ UNCHANGED <<pipelineVars, scoring, fleet, costing, insights>>

\* taken for Promise.all: run on as soon as one fetch has settled, with the
\* fetches still pending counted as failed
PromiseAllResolves_first ==
  /\ analytics.pc = "fetching"
  /\ \E k \in 1..Len(analytics.vehicles) : analytics.tracks[k] # "pending"
  /\ analytics' = [analytics EXCEPT
       !.pc = "resolved",
       !.awaited = [k \in 1..Len(analytics.vehicles) |->
                      IF analytics.tracks[k] = "pending" THEN "null"
                      ELSE analytics.tracks[k]],
       !.cached = TRUE]
  /\ UNCHANGED <<pipelineVars, scoring, fleet, costing, insights>>

\* Promise.all(trackPromises) resolves with the array of what the fetches
\* settled with; the callback runs to its end on it, cacheWrap stores what
\* it returned and getFleetAnalytics resolves with it
PromiseAllResolves ==
  /\ analytics.pc = "fetching"
  /\ \A k \in 1..Len(analytics.vehicles) : analytics.tracks[k] # "pending"
  /\ analytics' = [analytics EXCEPT
       !.pc = "resolved", !.awaited = analytics.tracks, !.cached = TRUE]
  /\ UNCHANGED <<pipelineVars, scoring, fleet, costing, insights>>

\* getFleetAnalytics is called again with the same period: the cache hits
GetFleetAnalyticsCached ==
  /\ analytics.pc = "resolved"
  /\ analytics.calls < MaxCalls
  /\ analytics.cached
  /\ analytics' = [analytics EXCEPT !.calls = analytics.calls + 1]
  /\ UNCHANGED <<pipelineVars, scoring, fleet, costing, insights>>

NextAnalytics ==
  \/ GetVehiclesResolves
  \/ GetVehiclesRejects
  \/ TrackFetchSettles
  \/ PromiseAllResolves
  \/ GetFleetAnalyticsCached

SpecAnalytics == InitAnalytics /\ [][NextAnalytics]_vars

\* every request of the GPS client ends, by its answer or by the timeout
\* the client sets, and the event loop runs the callbacks that are due
SpecAnalyticsFair ==
  /\ SpecAnalytics
  /\ WF_vars(TrackFetchSettles)
  /\ WF_vars(PromiseAllResolves)

\* ------------------------------------------------------------------------
\* What the track in hand says, read off its points without walking it
\* ------------------------------------------------------------------------
Pts == track.points
N == Len(track.points)
StateAt(k) == classifyPointState(Pts[k], config)

\* computeBaseMetrics has returned for the track in hand
BaseReturned == pc \in {"speeding", "done"}

\* every timestamp parses and none lies before its predecessor
Ascending ==
  /\ \A k \in 1..N : Pts[k].timestamp.text = "iso"
  /\ \A k \in 1..(N - 1) : Pts[k].timestamp.minute <= Pts[k + 1].timestamp.minute

\* minutes on the clock between point k and point k + 1
ClockMinutes(k) == Pts[k + 1].timestamp.minute - Pts[k].timestamp.minute

\* clock minutes of the segments 1..m whose earlier point is in state st
RECURSIVE ClockIn(_, _)
ClockIn(m, st) ==
  IF m <= 0 THEN 0
  ELSE ClockIn(m - 1, st) + (IF StateAt(m) = st THEN ClockMinutes(m) ELSE 0)

\* stop transitions into the points 2..m
StopsUpTo(m) ==
  Cardinality({k \in 2..m :
    /\ StateAt(k - 1) = "moving"
    /\ StateAt(k) \in {"idle", "off"}})

\* <<a, b>>: the points a..b are a maximal contiguous run of idle points
IdleRuns ==
  {r \in (1..N) \X (1..N) :
    /\ r[1] <= r[2]
    /\ \A k \in r[1]..r[2] : StateAt(k) = "idle"
    /\ (r[1] = 1 \/ StateAt(r[1] - 1) # "idle")
    /\ (r[2] = N \/ StateAt(r[2] + 1) # "idle")}

\* minutes the pipeline counts for the segments that start at a..b
RECURSIVE SegmentMinutes(_, _)
SegmentMinutes(a, b) ==
  IF a > b \/ a >= N THEN 0
  ELSE getPointDurationMinutes(Pts[a], Pts[a + 1]) + SegmentMinutes(a + 1, b)

RunMinutes(r) == SegmentMinutes(r[1], r[2])

LongRuns == {r \in IdleRuns : RunMinutes(r) >= config.longIdleThresholdMinutes}

RECURSIVE SumRunMinutes(_)
SumRunMinutes(runs) ==
  IF runs = {} THEN 0
  ELSE LET r == CHOOSE q \in runs : TRUE
       IN  RunMinutes(r) + SumRunMinutes(runs \ {r})

\* the place of a long run among the long runs, in track order
EventIndex(r) == Cardinality({q \in LongRuns : q[1] <= r[1]})

\* ------------------------------------------------------------------------
\* C1
\* ------------------------------------------------------------------------
\* C1: on a track of at least two points with ascending timestamps, every
\* segment's duration goes to the state of its earlier point: moving time
\* and idle time are the clock minutes of the segments that start moving
\* and idle, and with the minutes of the segments that start off they add
\* up to the span from the first to the last point, whatever the declared
\* period is.
C1_SegmentAttribution ==
  (BaseReturned /\ N >= 2 /\ Ascending) =>
    /\ baseMetrics.totalMovingTimeMinutes = R(ClockIn(N - 1, "moving"))
    /\ baseMetrics.totalIdleTimeMinutes = R(ClockIn(N - 1, "idle"))
    /\ RAdd(RAdd(baseMetrics.totalMovingTimeMinutes,
                 baseMetrics.totalIdleTimeMinutes),
            R(ClockIn(N - 1, "off")))
         = R(Pts[N].timestamp.minute - Pts[1].timestamp.minute)

\* moving, then off, then anything: ten minutes each, and a declared period
\* that is not the span of the points
C1_Witness ==
  /\ pc = "done" /\ N = 3 /\ Ascending
  /\ StateAt(1) = "moving" /\ StateAt(2) = "off"
  /\ baseMetrics.totalMovingTimeMinutes = R(SampleMinutes)
  /\ ClockIn(N - 1, "off") = SampleMinutes
  /\ baseMetrics.totalTimeMinutes
       # R(Pts[N].timestamp.minute - Pts[1].timestamp.minute)

\* ------------------------------------------------------------------------
\* C6
\* ------------------------------------------------------------------------
\* C6: numberOfStops counts exactly the indices at which a moving point is
\* followed by an idle or off point, each once, while the track is walked
\* and in the metrics returned.
C6_StopCount ==
  /\ pc = "walk" => accumulator.numberOfStops = StopsUpTo(i - 1)
  /\ BaseReturned => baseMetrics.numberOfStops = StopsUpTo(N)

\* moving -> idle counts, idle -> off does not
C6_Witness ==
  /\ pc = "done" /\ N = 3
  /\ StateAt(1) = "moving" /\ StateAt(2) = "idle" /\ StateAt(3) = "off"
  /\ baseMetrics.numberOfStops = 1

\* ------------------------------------------------------------------------
\* C7
\* ------------------------------------------------------------------------
\* what C7 says of the track in hand
IdleRunsEmitted ==
  /\ Len(baseMetrics.longIdleEvents) = Cardinality(LongRuns)
  /\ \A r \in LongRuns :
       /\ baseMetrics.longIdleEvents[EventIndex(r)].startTime = Pts[r[1]].timestamp
       /\ baseMetrics.longIdleEvents[EventIndex(r)].durationMinutes = RunMinutes(r)
  /\ baseMetrics.totalIdleTimeMinutes = R(SumRunMinutes(IdleRuns))

\* C7 as claimed: for every maximal run of idle points of any track, one
\* idle event if the run's minutes reach the threshold and none otherwise,
\* the run's minutes counted in the idle time either way.
C7_Original == BaseReturned => IdleRunsEmitted

\* C7, amended: the same on every track of at least two points.
C7_IdleRunEvents == (BaseReturned /\ N >= 2) => IdleRunsEmitted

\* a run that reaches the threshold and one that does not
C7_Witness ==
  /\ pc = "done" /\ N = 3
  /\ config.longIdleThresholdMinutes > 0
  /\ Cardinality(IdleRuns) = 2 /\ Cardinality(LongRuns) = 1
  /\ Len(baseMetrics.longIdleEvents) = 1

\* ------------------------------------------------------------------------
\* C8
\* ------------------------------------------------------------------------
\* the run that holds the last point
LastRun == CHOOSE r \in IdleRuns : r[2] = N

\* what C8 says of a track whose last point is idle
OpenRunFinalized ==
  LET events == baseMetrics.longIdleEvents
  IN  /\ Len(events) = Cardinality(LongRuns)
      /\ LastRun \in LongRuns =>
           /\ events[Len(events)].endTime = Pts[N].timestamp
           /\ events[Len(events)].startTime = Pts[LastRun[1]].timestamp
           /\ events[Len(events)].durationMinutes = RunMinutes(LastRun)

\* C8 as claimed: whenever the last point of a track is idle, the run still
\* open is checked against the threshold and, if it qualifies, emitted with
\* the last point's timestamp as its end.
C8_Original ==
  (BaseReturned /\ N >= 1 /\ StateAt(N) = "idle") => OpenRunFinalized

\* C8, amended: the same on every track of at least two points.
C8_OpenRunFinalized ==
  (BaseReturned /\ N >= 2 /\ StateAt(N) = "idle") => OpenRunFinalized

\* a track that ends inside a run long enough to be emitted
C8_Witness ==
  /\ pc = "done" /\ N = 3
  /\ config.longIdleThresholdMinutes > 0
  /\ StateAt(1) = "moving" /\ StateAt(2) = "idle" /\ StateAt(3) = "idle"
  /\ Len(baseMetrics.longIdleEvents) = 1
  /\ baseMetrics.longIdleEvents[1].endTime = Pts[3].timestamp
  /\ baseMetrics.longIdleEvents[1].durationMinutes = SampleMinutes

\* ------------------------------------------------------------------------
\* C9
\* ------------------------------------------------------------------------
NothingNegative ==
  /\ \A k \in 1..(N - 1) : getPointDurationMinutes(Pts[k], Pts[k + 1]) >= 0
  /\ accumulator.totalMovingTimeMinutes >= 0
  /\ accumulator.totalIdleTimeMinutes >= 0
  /\ accumulator.totalDistanceKm >= 0
  /\ idleTracker.accumulatedIdleMinutes >= 0
  /\ speedingAnalysis.timeOverThresholdMinutes >= 0
  /\ \A e \in 1..Len(accumulator.longIdleEvents) :
       accumulator.longIdleEvents[e].durationMinutes >= 0
  /\ RLe(R(0), baseMetrics.totalMovingTimeMinutes)
  /\ RLe(R(0), baseMetrics.totalIdleTimeMinutes)
  /\ RLe(R(0), baseMetrics.totalDistanceKm)
  /\ \A e \in 1..Len(baseMetrics.longIdleEvents) :
       baseMetrics.longIdleEvents[e].durationMinutes >= 0
  /\ RLe(R(0), output.timeOverSpeedThresholdMinutes)

NothingDecreases ==
  /\ (pc = "walk" /\ pc' = "walk") =>
       /\ accumulator'.totalMovingTimeMinutes >= accumulator.totalMovingTimeMinutes
       /\ accumulator'.totalIdleTimeMinutes >= accumulator.totalIdleTimeMinutes
       /\ accumulator'.totalDistanceKm >= accumulator.totalDistanceKm
  /\ (pc = "walk" /\ pc' = "speeding") =>
       /\ baseMetrics'.totalMovingTimeMinutes = R(accumulator.totalMovingTimeMinutes)
       /\ baseMetrics'.totalIdleTimeMinutes = R(accumulator.totalIdleTimeMinutes)
       /\ baseMetrics'.totalDistanceKm = R(accumulator.totalDistanceKm)
  /\ (pc = "speeding" /\ pc' = "speeding") =>
       speedingAnalysis'.timeOverThresholdMinutes
         >= speedingAnalysis.timeOverThresholdMinutes
  /\ (pc = "speeding" /\ pc' = "done") =>
       output'.timeOverSpeedThresholdMinutes
         = R(speedingAnalysis.timeOverThresholdMinutes)

\* C9: on any track, also one whose timestamps are out of order, repeated or
\* unparseable, no segment duration is negative, so moving time, idle time,
\* distance, time over the speed threshold and the duration of every idle
\* event are never negative and never decrease while the track is walked.
C9_NeverNegative == []NothingNegative /\ [][NothingDecreases]_vars

\* a walked track with a timestamp that does not parse and a pair out of
\* order
C9_Witness ==
  /\ pc = "done" /\ N = 3
  /\ Pts[1].timestamp = GarbageTime
  /\ Pts[2].timestamp.text = "iso" /\ Pts[3].timestamp.text = "iso"
  /\ Pts[2].timestamp.minute > Pts[3].timestamp.minute
  /\ StateAt(1) = "idle" /\ StateAt(2) = "moving"
  /\ baseMetrics.totalMovingTimeMinutes = R(0)
  /\ baseMetrics.totalIdleTimeMinutes = R(0)

\* ------------------------------------------------------------------------
\* C10
\* ------------------------------------------------------------------------
\* C10: whatever calls came before and whatever they left in the idle
\* tracker and the accumulators, a call returns what the pipeline yields on
\* its own track and config alone, so two runs on the same track and config
\* return the same record.
C10_NoHiddenState ==
  pc = "done" => output = computeFullMetricsWithScores(track, config)

\* a second call, on a track without idle points, after a call that ended
\* with its idle tracker inside a run
C10_Witness ==
  /\ pc = "done" /\ calls = 2 /\ N = 2
  /\ \A k \in 1..N : StateAt(k) = "moving"
  /\ output.longIdleEvents = <<>>
  /\ ~idleTracker.isInIdleState

\* ------------------------------------------------------------------------
\* C2
\* ------------------------------------------------------------------------
InScoreRange(x) == RLe(R(0), x) /\ RLe(x, R(100))

\* C2: for every record of finite derived metrics, every set of finite
\* weights and every configuration, calculateRiskScore returns a number
\* from 0 to 100, whatever the weights sum to.
C2_RiskScoreBounded ==
  "risk" \in scoring.called => InScoreRange(scoring.riskScore)

\* all the time speeding, 500 km/h, MaxLongIdleEvents long idles, weights
\* that sum to 4: the weighted sum is far above 100, the score is 100
C2_Witness ==
  /\ "risk" \in scoring.called
  /\ RLe(R(1), scoring.metrics.aggressiveDrivingRatio)
  /\ scoring.metrics.maxSpeedKmh = R(500)
  /\ Len(scoring.metrics.longIdleEvents) = MaxLongIdleEvents
  /\ scoring.riskWeights = HeavyRiskWeights
  /\ RLt(R(100), RiskWeightedScore(scoring.riskComponents, scoring.riskWeights))
  /\ scoring.riskScore = R(100)

\* ------------------------------------------------------------------------
\* C3
\* ------------------------------------------------------------------------
\* C3: for every record of finite base metrics, every set of finite weights
\* and every configuration, calculateEfficiencyScore returns a number from
\* 0 to 100, and each of the four component scores is from 0 to 100.
C3_EfficiencyScoreBounded ==
  "efficiency" \in scoring.called =>
    /\ InScoreRange(scoring.efficiencyScore)
    /\ InScoreRange(scoring.efficiencyComponents.idleScore)
    /\ InScoreRange(scoring.efficiencyComponents.utilizationScore)
    /\ InScoreRange(scoring.efficiencyComponents.distanceScore)
    /\ InScoreRange(scoring.efficiencyComponents.stopScore)

\* weights that sum to 4 push the weighted sum above 100, and the moving
\* time above the total time pushes the utilization rate above 1
C3_Witness ==
  /\ "efficiency" \in scoring.called
  /\ scoring.efficiencyWeights = HeavyEfficiencyWeights
  /\ RLt(scoring.metrics.totalTimeMinutes, scoring.metrics.totalMovingTimeMinutes)
  /\ RLt(R(100), EfficiencyWeightedScore(scoring.efficiencyComponents,
                                         scoring.efficiencyWeights))
  /\ scoring.efficiencyComponents.utilizationScore = R(100)
  /\ scoring.efficiencyScore = R(100)

\* ------------------------------------------------------------------------
\* C4
\* ------------------------------------------------------------------------
\* the ranking holds each vehicle of the list once, with the score given
OneEntryPerVehicle(ranking, Score(_)) ==
  /\ Len(ranking) = Len(fleet.vehicleMetrics)
  /\ \A v \in 1..Len(fleet.vehicleMetrics) :
       Cardinality({k \in 1..Len(ranking) :
                      /\ ranking[k].vehicleId = fleet.vehicleMetrics[v].vehicleId
                      /\ ranking[k].score = Score(fleet.vehicleMetrics[v])}) = 1

\* scores fall along the ranking and equal scores stand by ascending id
OrderedByScoreThenId(ranking) ==
  \A k \in 1..(Len(ranking) - 1) :
    \/ RLt(ranking[k + 1].score, ranking[k].score)
    \/ /\ ranking[k + 1].score = ranking[k].score
       /\ Collation(ranking[k].vehicleId) < Collation(ranking[k + 1].vehicleId)

\* the entry at the k-th place (from 1) has rank k
DenseRanks(ranking) == \A k \in 1..Len(ranking) : ranking[k].rank = k

EfficiencyOf(m) == m.efficiencyScore

RiskOf(m) == m.riskScore

\* C4: rankByEfficiency and rankByRisk return one entry per vehicle of the
\* list, by score descending, equal scores by ascending vehicleId, and the
\* rank of the entry at 0-based position k is k + 1.
C4_RankingOrder ==
  fleet.called =>
    /\ OneEntryPerVehicle(fleet.fleetMetrics.vehiclesByEfficiency, EfficiencyOf)
    /\ OrderedByScoreThenId(fleet.fleetMetrics.vehiclesByEfficiency)
    /\ DenseRanks(fleet.fleetMetrics.vehiclesByEfficiency)
    /\ OneEntryPerVehicle(fleet.fleetMetrics.vehiclesByRisk, RiskOf)
    /\ OrderedByScoreThenId(fleet.fleetMetrics.vehiclesByRisk)
    /\ DenseRanks(fleet.fleetMetrics.vehiclesByRisk)

\* three vehicles handed over in descending id order, two of them tied on
\* efficiency and two on risk: the ties come out in ascending id order
C4_Witness ==
  /\ fleet.called
  /\ Len(fleet.vehicleMetrics) = 3
  /\ \A k \in 1..2 : Collation(fleet.vehicleMetrics[k].vehicleId)
                       > Collation(fleet.vehicleMetrics[k + 1].vehicleId)
  /\ \E k \in 1..2 :
       fleet.fleetMetrics.vehiclesByEfficiency[k].score
         = fleet.fleetMetrics.vehiclesByEfficiency[k + 1].score
  /\ \E k \in 1..2 :
       fleet.fleetMetrics.vehiclesByRisk[k].score
         = fleet.fleetMetrics.vehiclesByRisk[k + 1].score

\* ------------------------------------------------------------------------
\* C5
\* ------------------------------------------------------------------------
Reorderings(n) ==
  {f \in [1..n -> 1..n] : \A a, b \in 1..n : f[a] = f[b] => a = b}

Permuted(list, f) == [k \in 1..Len(list) |-> list[f[k]]]

\* C5: the efficiency ranking, the risk ranking and the top-risk list of
\* aggregateFleetMetrics are the same for every order in which the same
\* vehicles (distinct ids) are handed over.
C5_OrderIndependent ==
  fleet.called =>
    \A f \in Reorderings(Len(fleet.vehicleMetrics)) :
      LET other == aggregateFleetMetrics(Permuted(fleet.vehicleMetrics, f),
                                         Iso(0), Iso(24 * 60))
      IN  /\ other.vehiclesByEfficiency = fleet.fleetMetrics.vehiclesByEfficiency
          /\ other.vehiclesByRisk = fleet.fleetMetrics.vehiclesByRisk
          /\ other.topRiskVehicles = fleet.fleetMetrics.topRiskVehicles

\* a fleet of MaxVehicles vehicles, all tied on risk, not handed over in
\* ascending id order
C5_Witness ==
  /\ fleet.called
  /\ Len(fleet.vehicleMetrics) = MaxVehicles
  /\ \A k \in 1..Len(fleet.vehicleMetrics) :
       fleet.vehicleMetrics[k].riskScore = fleet.vehicleMetrics[1].riskScore
  /\ Collation(fleet.vehicleMetrics[1].vehicleId)
       > Collation(fleet.vehicleMetrics[2].vehicleId)
  /\ Len(fleet.fleetMetrics.topRiskVehicles) = 3

\* ------------------------------------------------------------------------
\* C12
\* ------------------------------------------------------------------------
\* minutes from the declared start to the declared end of the track in
\* hand: 0 when a bound does not parse or the end lies before the start
DeclaredMinutes ==
  IF /\ track.startTime.text = "iso" /\ track.endTime.text = "iso"
     /\ track.endTime.minute >= track.startTime.minute
  THEN track.endTime.minute - track.startTime.minute
  ELSE 0

\* every metric but the total time is zero and there is no idle event
AllButPeriodZero(metrics) ==
  /\ metrics.totalDistanceKm = R(0)
  /\ metrics.totalMovingTimeMinutes = R(0)
  /\ metrics.totalIdleTimeMinutes = R(0)
  /\ metrics.numberOfStops = 0
  /\ metrics.averageSpeedKmh = R(0)
  /\ metrics.longIdleEvents = <<>>

\* C12: on a track without points computeBaseMetrics returns distance,
\* moving time, idle time, stops, average speed, max speed and points
\* analyzed all 0 and no idle event, and totalTimeMinutes is the duration of
\* the declared period.
C12_EmptyTrack ==
  (BaseReturned /\ N = 0) =>
    /\ AllButPeriodZero(baseMetrics)
    /\ baseMetrics.maxSpeedKmh = R(0)
    /\ baseMetrics.totalPointsAnalyzed = 0
    /\ baseMetrics.totalTimeMinutes = R(DeclaredMinutes)

\* the empty track declared for half a day, walked to the end
C12_Witness ==
  /\ pc = "done" /\ N = 0
  /\ track.startTime = Iso(0) /\ track.endTime = Iso(12 * 60)
  /\ baseMetrics.totalTimeMinutes = R(12 * 60)
  /\ output.totalTimeMinutes = R(12 * 60)

\* ------------------------------------------------------------------------
\* C13
\* ------------------------------------------------------------------------
\* the highest speed among the points with the ignition on, 0 without any
MaxSpeedIgnitionOn ==
  LET on == {k \in 1..N : Pts[k].ignitionOn}
  IN  IF on = {} THEN 0
      ELSE Pts[CHOOSE k \in on : \A j \in on : Pts[j].speed <= Pts[k].speed].speed

SpeedingAt(k) ==
  Pts[k].ignitionOn /\ Pts[k].speed >= config.speedingThresholdKmh

\* minutes of the segments 1..m whose earlier point is speeding
RECURSIVE SpeedingMinutes(_)
SpeedingMinutes(m) ==
  IF m <= 0 THEN 0
  ELSE SpeedingMinutes(m - 1)
         + (IF SpeedingAt(m) THEN getPointDurationMinutes(Pts[m], Pts[m + 1])
            ELSE 0)

\* C14: timeOverThresholdMinutes of analyzeSpeedingTime is the sum of the
\* durations of the segments whose earlier point is speeding (ignition on,
\* speed at or above the threshold); no other segment adds to it.
C14_SpeedingTime ==
  pc = "done" =>
    /\ speedingAnalysis.timeOverThresholdMinutes = SpeedingMinutes(N - 1)
    /\ output.timeOverSpeedThresholdMinutes = R(SpeedingMinutes(N - 1))

\* a speeding point, then a fast point with the ignition off, then a
\* speeding point that ends the track: only the first segment counts
C14_Witness ==
  /\ pc = "done" /\ N = 3
  /\ SpeedingAt(1) /\ ~SpeedingAt(2) /\ Pts[2].speed = 120 /\ SpeedingAt(3)
  /\ getPointDurationMinutes(Pts[2], Pts[3]) > 0
  /\ speedingAnalysis.timeOverThresholdMinutes = SampleMinutes

\* ------------------------------------------------------------------------
\* C15
\* ------------------------------------------------------------------------
\* the points that are speeding while their predecessor is absent or not
\* speeding: the first points of the maximal speeding runs
SpeedingRunStarts ==
  {k \in 1..N : SpeedingAt(k) /\ (k = 1 \/ ~SpeedingAt(k - 1))}

\* C15 as claimed: speedingSegmentCount of analyzeSpeedingTime is the number
\* of points of the track that are speeding and whose predecessor is absent
\* or not speeding, counted over all the points of the track.
C15_SpeedingRuns ==
  pc = "done" =>
    speedingAnalysis.speedingSegmentCount = Cardinality(SpeedingRunStarts)

\* ------------------------------------------------------------------------
\* C16
\* ------------------------------------------------------------------------
InUnitRange(x) == RLe(R(0), x) /\ RLe(x, R(1))

\* C16 as claimed: for every track and every configuration the derived
\* metrics hold an aggressiveDrivingRatio from 0 to 1 and an idleRatio from
\* 0 to 1.
C16_RatiosBounded ==
  pc = "done" =>
    /\ InUnitRange(output.idleRatio)
    /\ InUnitRange(output.aggressiveDrivingRatio)

\* ------------------------------------------------------------------------
\* C17
\* ------------------------------------------------------------------------
\* C17: when totalTimeMinutes is 0, calculateEfficiencyScore and
\* calculateRiskScore return exactly 0, whatever the other metrics, the
\* weights and the configuration.
C17_ZeroPeriodScoresZero ==
  scoring.called # {} /\ scoring.metrics.totalTimeMinutes = R(0) =>
    /\ "efficiency" \in scoring.called => scoring.efficiencyScore = R(0)
    /\ "risk" \in scoring.called => scoring.riskScore = R(0)

\* a period of no length whose components are far from 0: both weighted
\* sums are above 0, both scores are 0
C17_Witness ==
  /\ {"efficiency", "risk"} \subseteq scoring.called
  /\ scoring.metrics.totalTimeMinutes = R(0)
  /\ RLt(R(0), EfficiencyWeightedScore(scoring.efficiencyComponents,
                                       scoring.efficiencyWeights))
  /\ RLt(R(0), RiskWeightedScore(scoring.riskComponents, scoring.riskWeights))
  /\ scoring.efficiencyScore = R(0)
  /\ scoring.riskScore = R(0)

\* ------------------------------------------------------------------------
\* C18
\* ------------------------------------------------------------------------
\* what the count of long idles is divided by: 1 for a period of at most a
\* day, the days of the period beyond that
IdleDivisor ==
  IF RLe(scoring.metrics.totalTimeMinutes, R(MINUTES_PER_DAY)) THEN R(1)
  ELSE RDiv(scoring.metrics.totalTimeMinutes, R(MINUTES_PER_DAY))

\* C18: calculateLongIdleFrequencyScore is
\* min(100, count / max(1, totalTimeMinutes / 1440) * idleRiskFactor): the
\* count is never scaled up, it is scaled down to a rate per day for
\* periods beyond a day, and the score is from 0 to 100.
C18_LongIdleFrequency ==
  "risk" \in scoring.called =>
    /\ scoring.riskComponents.longIdleFrequencyScore =
         RMin(R(100),
              RMul(RDiv(R(Len(scoring.metrics.longIdleEvents)), IdleDivisor),
                   R(scoring.config.idleRiskFactor)))
    /\ InScoreRange(scoring.riskComponents.longIdleFrequencyScore)

\* MaxLongIdleEvents long idles in four days at the default factor: a rate
\* per day that scores below 100
C18_Witness ==
  /\ "risk" \in scoring.called
  /\ scoring.metrics.totalTimeMinutes = R(4 * MINUTES_PER_DAY)
  /\ Len(scoring.metrics.longIdleEvents) = MaxLongIdleEvents
  /\ scoring.config = ANALYTICS_CONFIG
  /\ RLt(scoring.riskComponents.longIdleFrequencyScore, R(100))
  /\ RLt(R(0), scoring.riskComponents.longIdleFrequencyScore)

\* ------------------------------------------------------------------------
\* C19
\* ------------------------------------------------------------------------
RiskFactorOrder ==
  <<"speeding", "longIdleFrequency", "maxSpeedSeverity", "erraticPattern">>

\* the weighted contribution of the k-th risk factor of the fixed order
Contribution(k) ==
  LET c == computeRiskComponents(scoring.metrics, scoring.config)
      w == scoring.riskWeights
  IN  CASE k = 1 -> RMul(c.speedingScore, w.speedingRatio)
        [] k = 2 -> RMul(c.longIdleFrequencyScore, w.longIdleFrequency)
        [] k = 3 -> RMul(c.maxSpeedSeverityScore, w.maxSpeedSeverity)
        [] k = 4 -> RMul(c.erraticPatternScore, w.erraticPattern)

\* the factors of the largest contribution
LargestFactors == {k \in 1..4 : \A j \in 1..4 : RLe(Contribution(j), Contribution(k))}

\* C19: getPrimaryRiskFactor returns the risk component with the largest
\* weighted contribution, and of several with exactly the largest the
\* first in the order speeding, longIdleFrequency, maxSpeedSeverity,
\* erraticPattern.
C19_PrimaryRiskFactor ==
  "primary" \in scoring.called =>
    scoring.primaryRiskFactor =
      RiskFactorOrder[CHOOSE k \in LargestFactors : \A j \in LargestFactors : k <= j]

\* long idles and top speed tie for the largest contribution, speeding
\* contributes less: the long idles are named
C19_Witness ==
  /\ "primary" \in scoring.called
  /\ LargestFactors = {2, 3}
  /\ scoring.primaryRiskFactor = "longIdleFrequency"

\* ------------------------------------------------------------------------
\* C20
\* ------------------------------------------------------------------------
\* the insurance multiplier on the line from 1 at a risk score of 0 to
\* speedingInsuranceMultiplier at 100, flat outside
Interpolated(riskScore) ==
  LET top == costing.financials.speedingInsuranceMultiplier
  IN  IF RLe(riskScore, R(0)) THEN R(1)
      ELSE IF RLe(R(100), riskScore) THEN top
      ELSE RAdd(R(1), RDiv(RMul(riskScore, RSub(top, R(1))), R(100)))

RiskOfVehicle(k) == costing.vehicleMetrics[k].riskScore
RiskCostOfVehicle(k) == costing.vehicleCosts[k].speedingRiskCost
TopRiskCost ==
  RMul(costing.financials.baseInsuranceCostPerVehicle,
       RSub(costing.financials.speedingInsuranceMultiplier, R(1)))

\* C20: calculateSpeedingRiskCost is baseInsuranceCostPerVehicle x
\* (multiplier - 1) with the multiplier interpolated from 1 at risk score 0
\* to speedingInsuranceMultiplier at 100 and flat outside: 0 for a risk
\* score of 0 or less, the full premium for 100 or more, and never lower
\* for a higher risk score when speedingInsuranceMultiplier is 1 or more.
C20_SpeedingRiskCost ==
  costing.stage \in {"costs", "fleet"} =>
    /\ \A k \in 1..Len(costing.vehicleCosts) :
         /\ RiskCostOfVehicle(k) =
              RMul(costing.financials.baseInsuranceCostPerVehicle,
                   RSub(Interpolated(RiskOfVehicle(k)), R(1)))
         /\ RLe(RiskOfVehicle(k), R(0)) => RiskCostOfVehicle(k) = R(0)
         /\ RLe(R(100), RiskOfVehicle(k)) => RiskCostOfVehicle(k) = TopRiskCost
    /\ RLe(R(1), costing.financials.speedingInsuranceMultiplier) =>
         \A a, b \in 1..Len(costing.vehicleCosts) :
           RLe(RiskOfVehicle(a), RiskOfVehicle(b)) =>
             RLe(RiskCostOfVehicle(a), RiskCostOfVehicle(b))

\* risk scores below 0, between 0 and 100 and above 100 at the default
\* premium: no cost, a part of the premium, the full premium
C20_Witness ==
  /\ costing.stage = "costs"
  /\ costing.financials = FINANCIAL_DEFAULTS
  /\ Len(costing.vehicleCosts) = 3
  /\ RLt(RiskOfVehicle(1), R(0)) /\ RiskCostOfVehicle(1) = R(0)
  /\ RLt(R(0), RiskOfVehicle(2)) /\ RLt(RiskOfVehicle(2), R(100))
  /\ RLt(R(0), RiskCostOfVehicle(2)) /\ RLt(RiskCostOfVehicle(2), TopRiskCost)
  /\ RLt(R(100), RiskOfVehicle(3)) /\ RiskCostOfVehicle(3) = R(360)

\* ------------------------------------------------------------------------
\* C11
\* ------------------------------------------------------------------------
\* C11: no stage modifies its inputs: while computeBaseMetrics and
\* computeDerivedMetrics run and when they return the track's points are
\* what they were, computeDerivedMetrics leaves the base metrics as they
\* were, the rankings and aggregateFleetMetrics leave the caller's list of
\* vehicle metrics and aggregateFleetCosts the caller's list of vehicle
\* costs with the same elements in the same order.
C11_InputsKept ==
  [][ /\ pc \in {"walk", "speeding"} => track' = track
      /\ pc = "speeding" => baseMetrics' = baseMetrics
      /\ fleet # NoFleet => fleet'.vehicleMetrics = fleet.vehicleMetrics
      /\ costing.stage = "metrics" =>
           costing'.vehicleMetrics = costing.vehicleMetrics
      /\ costing.stage = "costs" =>
           costing'.vehicleCosts = costing.vehicleCosts ]_vars

\* the aggregator has ranked a list that was not in order of efficiency:
\* the first of the ranking is not the first of the list
C11_Witness ==
  /\ fleet # NoFleet
  /\ fleet.called
  /\ Len(fleet.vehicleMetrics) = MaxVehicles
  /\ fleet.fleetMetrics.vehiclesByEfficiency[1].vehicleId
       # fleet.vehicleMetrics[1].vehicleId
  /\ fleet.fleetMetrics.vehiclesByRisk[1].vehicleId
       # fleet.vehicleMetrics[1].vehicleId

\* ------------------------------------------------------------------------
\* C21
\* ------------------------------------------------------------------------
\* C21: calculateVehicleCosts returns dailyIdleCost = idle minutes / 60 x
\* idleConsumptionLitersPerHour x fuelCostPerLiter, 0 for idle time of 0
\* or less, monthlyProjectedIdleCost = dailyIdleCost x
\* operatingDaysPerMonth and annualProjectedLoss =
\* monthlyProjectedIdleCost x 12 + speedingRiskCost, for the vehicle it
\* was given.
C21_VehicleCosts ==
  costing.stage \notin {"none", "metrics"} =>
    \A k \in 1..Len(costing.vehicleCosts) :
      LET metrics == costing.vehicleMetrics[k]
          costs == costing.vehicleCosts[k]
          financials == costing.financials
      IN  /\ costs.vehicleId = metrics.vehicleId
          /\ costs.dailyIdleCost =
               IF RLe(metrics.totalIdleTimeMinutes, R(0)) THEN R(0)
               ELSE RMul(RMul(RDiv(metrics.totalIdleTimeMinutes, R(60)),
                              financials.idleConsumptionLitersPerHour),
                         financials.fuelCostPerLiter)
          /\ costs.monthlyProjectedIdleCost =
               RMul(costs.dailyIdleCost, financials.operatingDaysPerMonth)
          /\ costs.annualProjectedLoss =
               RAdd(RMul(costs.monthlyProjectedIdleCost, R(12)),
                    costs.speedingRiskCost)
          /\ costs.dailyTotalLoss = costs.dailyIdleCost
          /\ costs.monthlyProjectedLoss = costs.monthlyProjectedIdleCost

\* at the default prices, a vehicle with idle time below 0 costs nothing a
\* day and one with 90 idle minutes and a risk score of 25 costs 6.9375 a
\* day, 152.625 a month and 1921.5 a year
C21_Witness ==
  /\ costing.stage = "costs"
  /\ costing.financials = FINANCIAL_DEFAULTS
  /\ Len(costing.vehicleCosts) = 2
  /\ costing.vehicleMetrics[1].totalIdleTimeMinutes = R(-30)
  /\ costing.vehicleCosts[1].dailyIdleCost = R(0)
  /\ costing.vehicleMetrics[2].totalIdleTimeMinutes = R(90)
  /\ costing.vehicleMetrics[2].riskScore = R(25)
  /\ costing.vehicleCosts[2].dailyIdleCost = Frac(111, 16)
  /\ costing.vehicleCosts[2].monthlyProjectedIdleCost = Frac(1221, 8)
  /\ costing.vehicleCosts[2].annualProjectedLoss = Frac(3843, 2)

\* ------------------------------------------------------------------------
\* C22
\* ------------------------------------------------------------------------
\* the places in the list of costs of the highest annual loss
HighestLossAt ==
  {k \in 1..Len(costing.vehicleCosts) :
     \A j \in 1..Len(costing.vehicleCosts) :
       RLe(costing.vehicleCosts[j].annualProjectedLoss,
           costing.vehicleCosts[k].annualProjectedLoss)}

\* null for no costs, else the first of the costs of the highest loss
FirstHighest ==
  IF Len(costing.vehicleCosts) = 0 THEN NoVehicleCost
  ELSE costing.vehicleCosts[CHOOSE k \in HighestLossAt :
                              \A j \in HighestLossAt : k <= j]

\* C22: findHighestCostVehicle, of the fleet aggregator and of the cost
\* model, returns null for an empty list and else the vehicle of the
\* highest annualProjectedLoss, the first of them in the list when several
\* have it.
C22_HighestCostVehicle ==
  /\ costing.stage \in {"fleet", "both"} =>
       costing.fleetCosts.highestCostVehicle = FirstHighest
  /\ costing.stage = "both" =>
       costing.modelCosts.highestCostVehicle = FirstHighest

\* the second and the third vehicle tie for the highest loss, above the
\* first: the second is returned
C22_Witness ==
  /\ costing.stage = "both"
  /\ HighestLossAt = {2, 3}
  /\ costing.fleetCosts.highestCostVehicle.vehicleId = VehicleIds[2]
  /\ costing.modelCosts.highestCostVehicle.vehicleId = VehicleIds[2]

\* ------------------------------------------------------------------------
\* C30
\* ------------------------------------------------------------------------
\* C30: calculateFleetCosts of the cost model and aggregateFleetCosts of
\* the fleet aggregator return the same for the same list of costs and
\* period: the same period, totals, costByVehicle and highestCostVehicle.
C30_AggregatorsAgree ==
  costing.stage = "both" => costing.modelCosts = costing.fleetCosts

\* both called on a list of three where the first two vehicles tie for the
\* highest loss: both return the first, and the same totals above 0
C30_Witness ==
  /\ costing.stage = "both"
  /\ HighestLossAt = {1, 2}
  /\ Len(costing.vehicleCosts) = 3
  /\ costing.modelCosts.highestCostVehicle = costing.vehicleCosts[1]
  /\ RLt(R(0), costing.modelCosts.totalRiskAdjustedAnnualCost)

\* ------------------------------------------------------------------------
\* C23
\* ------------------------------------------------------------------------
\* C23: topRiskVehicles of aggregateFleetMetrics is the first min(3, N)
\* entries of vehiclesByRisk, in their order and with their ranks
\* 1..min(3, N).
C23_TopRisk ==
  fleet # NoFleet /\ fleet.called =>
    LET top == fleet.fleetMetrics.topRiskVehicles
        byRisk == fleet.fleetMetrics.vehiclesByRisk
        n == Len(fleet.vehicleMetrics)
    IN  /\ Len(top) = IF n < 3 THEN n ELSE 3
        /\ \A k \in 1..Len(top) : top[k] = byRisk[k] /\ top[k].rank = k

\* a fleet of more than three vehicles: the ranking is longer than the
\* top-risk list, whose last entry is not the last of the fleet
C23_Witness ==
  /\ fleet # NoFleet
  /\ fleet.called
  /\ Len(fleet.vehicleMetrics) > 3
  /\ Len(fleet.fleetMetrics.vehiclesByRisk) = Len(fleet.vehicleMetrics)
  /\ Len(fleet.fleetMetrics.topRiskVehicles) = 3
  /\ fleet.fleetMetrics.topRiskVehicles[1].vehicleId
       # fleet.vehicleMetrics[1].vehicleId

\* ------------------------------------------------------------------------
\* C24
\* ------------------------------------------------------------------------
\* the sum of a field over the first k vehicles handed to the aggregator
RECURSIVE FleetTotal(_, _)
FleetTotal(Field(_), k) ==
  IF k = 0 THEN R(0)
  ELSE RAdd(FleetTotal(Field, k - 1), Field(fleet.vehicleMetrics[k]))

DistanceOf(m) == m.totalDistanceKm
IdleTimeOf(m) == m.totalIdleTimeMinutes
MovingTimeOf(m) == m.totalMovingTimeMinutes
IdleRatioOf(m) == m.idleRatio
EfficiencyScoreOf(m) == m.efficiencyScore
RiskScoreOf(m) == m.riskScore

\* C24: for a fleet of N > 0 vehicles aggregateFleetMetrics returns
\* totalVehicles = N, the sums of the vehicles' distance, idle time and
\* moving time, and the means over the N vehicles of idleRatio,
\* efficiencyScore and riskScore, every vehicle counting once.
C24_TotalsAndMeans ==
  fleet # NoFleet /\ fleet.called /\ Len(fleet.vehicleMetrics) > 0 =>
    LET n == Len(fleet.vehicleMetrics)
        f == fleet.fleetMetrics
    IN  /\ f.totalVehicles = n
        /\ f.totalDistanceKm = FleetTotal(DistanceOf, n)
        /\ f.totalIdleTimeMinutes = FleetTotal(IdleTimeOf, n)
        /\ f.totalMovingTimeMinutes = FleetTotal(MovingTimeOf, n)
        /\ f.averageIdleRatio = RDiv(FleetTotal(IdleRatioOf, n), R(n))
        /\ f.averageEfficiencyScore = RDiv(FleetTotal(EfficiencyScoreOf, n), R(n))
        /\ f.averageRiskScore = RDiv(FleetTotal(RiskScoreOf, n), R(n))

\* a long trip of idle ratio 1/4 and a short one of 1/2: the mean is 3/8,
\* not the 11/40 of the summed times
C24_Witness ==
  /\ fleet # NoFleet
  /\ fleet.called
  /\ Len(fleet.vehicleMetrics) = 2
  /\ fleet.vehicleMetrics[1].idleRatio = Frac(1, 4)
  /\ fleet.vehicleMetrics[2].idleRatio = Frac(1, 2)
  /\ fleet.fleetMetrics.averageIdleRatio = Frac(3, 8)
  /\ fleet.fleetMetrics.totalIdleTimeMinutes = R(110)
  /\ fleet.fleetMetrics.totalMovingTimeMinutes = R(290)
  /\ fleet.fleetMetrics.totalDistanceKm = R(130)

\* ------------------------------------------------------------------------
\* C25
\* ------------------------------------------------------------------------
\* totals of 0, no costs by vehicle and no highest-cost vehicle
EmptyCosts(costs) ==
  /\ costs.totalDailyIdleCost = R(0)
  /\ costs.totalMonthlyProjectedIdleCost = R(0)
  /\ costs.totalRiskAdjustedAnnualCost = R(0)
  /\ costs.costByVehicle = <<>>
  /\ costs.highestCostVehicle = NoVehicleCost

\* C25: called on no vehicles, aggregateFleetMetrics, aggregateFleetCosts
\* and calculateFleetCosts return an aggregate of totalVehicles 0, totals
\* and averages of 0, empty rankings and top-risk list, empty
\* costByVehicle and highestCostVehicle null.
C25_EmptyFleet ==
  /\ fleet # NoFleet /\ fleet.called /\ Len(fleet.vehicleMetrics) = 0 =>
       LET f == fleet.fleetMetrics
       IN  /\ f.totalVehicles = 0
           /\ f.totalDistanceKm = R(0)
           /\ f.totalIdleTimeMinutes = R(0)
           /\ f.totalMovingTimeMinutes = R(0)
           /\ f.averageIdleRatio = R(0)
           /\ f.averageEfficiencyScore = R(0)
           /\ f.averageRiskScore = R(0)
           /\ f.vehiclesByEfficiency = <<>>
           /\ f.vehiclesByRisk = <<>>
           /\ f.topRiskVehicles = <<>>
  /\ costing.stage \in {"fleet", "both"} /\ Len(costing.vehicleMetrics) = 0 =>
       EmptyCosts(costing.fleetCosts)
  /\ costing.stage = "both" /\ Len(costing.vehicleMetrics) = 0 =>
       EmptyCosts(costing.modelCosts)

\* both cost aggregators have been called on the costs of no vehicles
C25_Witness ==
  /\ costing.stage = "both"
  /\ costing.vehicleMetrics = <<>>
  /\ costing.vehicleCosts = <<>>
  /\ costing.fleetCosts.highestCostVehicle = NoVehicleCost
  /\ costing.modelCosts.costByVehicle = <<>>

\* ------------------------------------------------------------------------
\* C27
\* ------------------------------------------------------------------------
\* C27: the scores that computeFullMetricsWithScores(track, config)
\* returns are those of calculateEfficiencyScore and calculateRiskScore
\* under that config, not under the defaults.
C27_ConfigGoverns ==
  pc = "done" =>
    /\ output.efficiencyScore =
         calculateEfficiencyScore(baseMetrics, EFFICIENCY_WEIGHTS, config)
    /\ output.riskScore =
         calculateRiskScore(computeDerivedMetrics(baseMetrics, speedingAnalysis),
                            RISK_WEIGHTS, config)

\* ------------------------------------------------------------------------
\* C28
\* ------------------------------------------------------------------------
RECURSIVE SumEventMinutes(_)
SumEventMinutes(events) ==
  IF events = <<>> THEN 0
  ELSE events[1].durationMinutes + SumEventMinutes(Tail(events))

\* C28: the durationMinutes of every idle event emitted is the sum of the
\* durations of the segments that start at a point of its idle run; the
\* durations of the events add up to no more than totalIdleTimeMinutes,
\* and to exactly that when longIdleThresholdMinutes is 0 or less.
C28_EventDurations ==
  BaseReturned =>
    LET events == baseMetrics.longIdleEvents
    IN  /\ \A j \in 1..Len(events) :
             \E r \in LongRuns :
               /\ EventIndex(r) = j
               /\ events[j].startTime = Pts[r[1]].timestamp
               /\ events[j].durationMinutes = RunMinutes(r)
        /\ RLe(R(SumEventMinutes(events)), baseMetrics.totalIdleTimeMinutes)
        /\ config.longIdleThresholdMinutes <= 0 =>
             R(SumEventMinutes(events)) = baseMetrics.totalIdleTimeMinutes

\* with a threshold of 0, a run of two idle points closed by a point whose
\* clock was set back to the start: the event ends on the clock where it
\* starts, its duration is the one segment that was counted, and so is
\* the idle time
C28_Witness ==
  /\ pc = "done" /\ N = 3
  /\ config.longIdleThresholdMinutes = 0
  /\ StateAt(1) = "idle" /\ StateAt(2) = "idle" /\ StateAt(3) = "moving"
  /\ Pts[1].timestamp = Iso(0) /\ Pts[2].timestamp = OnSchedule(2)
  /\ Pts[3].timestamp = Iso(0)
  /\ Len(baseMetrics.longIdleEvents) = 1
  /\ baseMetrics.longIdleEvents[1].endTime = baseMetrics.longIdleEvents[1].startTime
  /\ baseMetrics.longIdleEvents[1].durationMinutes = SampleMinutes
  /\ baseMetrics.totalIdleTimeMinutes = R(SampleMinutes)

\* ------------------------------------------------------------------------
\* C26: generateInsights with the fallback switched on
\* ------------------------------------------------------------------------
InsightsSettled == insights.pc \in {"resolved", "rejected"}

\* the call of the LLM returned and its response parsed and validated
LLMAnswered ==
  /\ insights.llm \in LLMContents
  /\ parseResponse(insights.llm).success

\* every number the prompt and the fallback format is in the request
TypedRequest == Undefined \notin PromptNumbers(insights.request)

\* C26: called with useFallbackOnError = true, generateInsights returns
\* success = false for a request that fails validateRequest and for no
\* other; for a request that passes it returns success = true, with source
\* 'llm' exactly when the LLM call returned and its response parsed and
\* validated, and with source 'fallback' and the rule-based insights when the
\* LLM is not configured, the call failed or the response did not parse
C26_FallbackAlways ==
  (InsightsSettled /\ insights.useFallbackOnError) =>
    /\ insights.pc = "resolved"
    /\ insights.result.success = validateRequest(insights.request).valid
    /\ insights.result.success =>
         IF LLMAnswered
           THEN /\ insights.result.source = "llm"
                /\ insights.result.data = parseResponse(insights.llm).data
           ELSE /\ insights.result.source = "fallback"
                /\ insights.result.data =
                     generateFallbackInsights(insights.request).value

\* the same, of the requests that carry every number that is formatted
InsightsOfTypedRequests ==
  (insights.pc # "none" /\ insights.request.fleetMetrics.present
     /\ insights.request.fleetCosts.present /\ TypedRequest) =>
    C26_FallbackAlways

\* a request that passes validateRequest and names a vehicle without a
\* score: the LLM is not configured, the fallback is on, and the promise
\* rejects with the TypeError of toFixed
C26_Rejected ==
  /\ insights.pc = "rejected"
  /\ insights.useFallbackOnError
  /\ ~insights.aiConfigured
  /\ validateRequest(insights.request).valid
  /\ insights.request.vehicleMetrics = <<UntypedVehicle("alpha")>>
  /\ insights.result = "TypeError"

\* ------------------------------------------------------------------------
\* C29: getFleetAnalytics waits for every fetch and keeps the list order
\* ------------------------------------------------------------------------
\* the positions in the vehicle list of the vehicles whose fetch succeeded
SucceededVehicles ==
  LET Succeeded(k) == analytics.tracks[k] = "track"
  IN  SelectSeq([k \in 1..Len(analytics.vehicles) |-> k], Succeeded)

FetchesInFlight ==
  {k \in 1..Len(analytics.vehicles) : analytics.tracks[k] = "pending"}

AnalyticsResolvedRight ==
  /\ analytics.pc = "fetching" =>
       DOMAIN analytics.tracks = 1..Len(analytics.vehicles)
  /\ analytics.pc = "resolved" =>
       LET vehicleMetrics == FleetAnalyticsResult.vehicleMetrics
           costByVehicle == FleetAnalyticsResult.fleetCosts.costByVehicle
       IN  /\ FetchesInFlight = {}
           /\ Len(vehicleMetrics) = Len(SucceededVehicles)
           /\ Len(costByVehicle) = Len(vehicleMetrics)
           /\ \A j \in 1..Len(vehicleMetrics) :
                /\ vehicleMetrics[j] =
                     computeFullMetrics(analytics.vehicles[SucceededVehicles[j]])
                /\ costByVehicle[j].vehicleId = vehicleMetrics[j].vehicleId
           /\ FleetAnalyticsResult.fleetMetrics.totalVehicles = Len(vehicleMetrics)

\* C29: once the vehicle list is there every track fetch is in flight at
\* once; getFleetAnalytics resolves whichever fetches fail and in whatever
\* order they settle, and not before every fetch has settled; vehicleMetrics
\* and fleetCosts.costByVehicle then hold exactly the vehicles whose fetch
\* succeeded, index-aligned and in the order of the vehicle list, and
\* fleetMetrics.totalVehicles is the length of vehicleMetrics
C29_FleetAnalytics ==
  /\ []AnalyticsResolvedRight
  /\ (analytics.pc = "fetching") ~> (analytics.pc = "resolved")

\* three vehicles; the fetches settle in the order third, first, second, the
\* second one fails; the call resolves with the first and the third vehicle
C29_Witness ==
  /\ analytics.pc = "resolved"
  /\ Len(analytics.vehicles) = 3
  /\ analytics.settled = <<3, 1, 2>>
  /\ analytics.tracks = <<"track", "null", "track">>
  /\ Len(FleetAnalyticsResult.vehicleMetrics) = 2
  /\ FleetAnalyticsResult.vehicleMetrics[1].vehicleId = VehicleIds[1]
  /\ FleetAnalyticsResult.vehicleMetrics[2].vehicleId = VehicleIds[3]
  /\ FleetAnalyticsResult.fleetCosts.costByVehicle[2].vehicleId = VehicleIds[3]
  /\ FleetAnalyticsResult.fleetMetrics.totalVehicles = 2
====
